---- MODULE Spec2Model ----
(***************************************************************************)
(* Model of the family task / reward backend (thibaultdory/DD).            *)
(*                                                                         *)
(* Dates are day numbers.  The PostgreSQL database is modelled by its      *)
(* committed rows; every AsyncSession keeps its own identity map and its   *)
(* own uncommitted writes, which reach the committed rows at commit        *)
(* (READ COMMITTED: a session reads committed rows and its own writes; a   *)
(* row UPDATE or a primary-key INSERT waits for the session that holds     *)
(* the row).                                                               *)
(***************************************************************************)
EXTENDS Integers, Sequences, FiniteSets, TLC

\* ------------------------------------------------------------------ bounds
MaxDay == 3
MaxRuns == 2
MaxViolations == 1
MaxConversions == 1

\* --------------------------------------------------------------- universes
Children == {"c1", "c2"}
ContractIds == {"k1", "k2"}
Runs == {"r1", "r2"}
SeqRuns == {"r1"}
Days == 0..MaxDay
ConvertAmounts == {0, 1, 4}

DailyRewardReason == "Recompense journaliere"
ConversionReason == "Conversion en euros reels"
NoContract == "null"
NoDate == -1
NoTask == 0
Workers == {"w1", "w2", "w3"}
Convs == {"v1", "v2"}
SeriesIds == {"s1", "s2"}
Unset == -2
GEN_WINDOW == 30
Gens == {"g1", "g2"}
SeqGens == {"g1"}
MaxSpan == 30

VARIABLES
    today,          \* date.today(); also the day of datetime.utcnow()
    jobDue,         \* the 00:00 cron trigger of 'daily_rewards' is pending
    date_only_mapped, \* WalletTransaction(date_only=...) is accepted by the mapped class
    contracts,      \* table contracts
    tasks,          \* table tasks + task_assignments (sequence of rows)
    occurrences,    \* table task_occurrences + task_series_assignees
    violations,     \* table rule_violations (set of [child_id, date])
    wallets,        \* table wallets: child -> [exists, balance]
    txs,            \* table wallet_transactions (sequence of rows)
    pc,             \* position of each run of process_daily_rewards_for_date
    target_date,    \* its target_date
    kind,           \* who started it: "midnight" or "reprocess"
    todo,           \* contracts of the SELECT not yet iterated
    cur,            \* the contract of the current loop iteration
    loaded,         \* Contract objects as loaded by the SELECT
    sw,             \* identity map of the session: Wallet objects
    dirtyW,         \* wallets whose balance the session changed
    newW,           \* wallets the session inserted (uncommitted)
    locks,          \* wallet rows the session holds (flushed, uncommitted)
    ptx,            \* WalletTransaction objects added to the session
    pcred,          \* contracts whose balance increment (line 123) ran
    rewards_processed,
    rewards_skipped,
    total_amount_credited,
    result,         \* what the last run of the slot returned / raised
    credits,        \* history: committed balance increments per <<contract, date>>
    overlap,        \* history: dates two runs in flight had as target together
    nruns,          \* number of runs started for a day of Days
    rp,             \* the loop of each reprocess_rewards request
    gpc,            \* position of each run of create_recurring_task_instances
    gtoday,         \* its 'today'
    gtodo,          \* recurring tasks of the SELECT not yet iterated
    gloaded,        \* the recurring Task objects as loaded, with assigned_to
    gcur,           \* the recurring task of the current iteration
    gj,             \* position in its weekdays
    gnew,           \* instances added and flushed by the session
    total_instances_created,
    total_instances_skipped,
    lastGenDay,     \* history: 'today' of the last committed generator run
    gresult,        \* how the last generator run of the slot ended
    galone,         \* history: no other generator ran while this one did
    wpc,            \* position of each gunicorn worker process in startup/shutdown
    scheduler_lock_file, \* the worker's global: its open lock file, if any
    flocked,        \* workers whose open file description holds the flock
    scheduler,      \* the worker's global: its AsyncIOScheduler
    series,         \* table task_series + task_series_assignees
    created,        \* history: <<series, date>> of every occurrence row inserted
    hpc,            \* position of the series request being served
    hstatus,        \* HTTP status of the last series request
    conv,           \* each overlapping convert_wallet request: its position,
                    \* child, amount and the balance its session loaded
    cleanup,        \* the cleanup_duplicates script: its position and the
                    \* value its last run returned
    rrule_call      \* the last call of build_rrule: its weekdays list, its
                    \* end date and the rule it returned

dbVars == <<contracts, tasks, occurrences, violations, wallets, txs>>
sessVars == <<pc, target_date, kind, todo, cur, loaded, sw, dirtyW, newW, locks,
              ptx, pcred, rewards_processed, rewards_skipped,
              total_amount_credited>>
histVars == <<result, credits, overlap, nruns>>
genVars == <<gpc, gtoday, gtodo, gloaded, gcur, gj, gnew,
             total_instances_created, total_instances_skipped, lastGenDay,
             gresult, galone>>
schedVars == <<wpc, scheduler_lock_file, flocked, scheduler>>
coreVars == <<today, jobDue, date_only_mapped, dbVars, sessVars, histVars, rp,
              genVars>>
seriesVars == <<series, created, hpc, hstatus>>
convVars == <<conv, cleanup, rrule_call>>
vars == <<coreVars, schedVars, seriesVars, convVars>>

\* ----------------------------------------------------------------- helpers
RECURSIVE SumAmounts(_)
SumAmounts(s) == IF s = <<>> THEN 0 ELSE Head(s).amount + SumAmounts(Tail(s))

TxOfChild(s, c) == LET T(t) == t.child_id = c IN SelectSeq(s, T)

NoResult == [status |-> "none", date |-> NoDate, rewards_processed |-> 0,
             rewards_skipped |-> 0, total_amount_credited |-> 0]

RECURSIVE SumField(_, _)
SumField(s, f) == IF s = <<>> THEN 0 ELSE Head(s)[f] + SumField(Tail(s), f)

\* the totals of the last day alone instead of the sums over the days
Summary_LastDay(results) ==
    IF results = <<>>
    THEN [days_processed |-> 0, total_rewards_processed |-> 0,
          total_rewards_skipped |-> 0, total_amount_credited |-> 0]
    ELSE LET l == results[Len(results)]
         IN  [days_processed |-> Len(results),
              total_rewards_processed |-> l.rewards_processed,
              total_rewards_skipped |-> l.rewards_skipped,
              total_amount_credited |-> l.total_amount_credited]

Summary(results) ==
    [days_processed |-> Len(results),
     total_rewards_processed |-> SumField(results, "rewards_processed"),
     total_rewards_skipped |-> SumField(results, "rewards_skipped"),
     total_amount_credited |-> SumField(results, "total_amount_credited")]

NoReprocess == [active |-> FALSE, cur |-> 0, end |-> 0, status |-> "none",
                start |-> 0, calls |-> <<>>, results |-> <<>>,
                summary |-> [days_processed |-> 0,
                             total_rewards_processed |-> 0,
                             total_rewards_skipped |-> 0,
                             total_amount_credited |-> 0]]

EmptySession == [c \in Children |-> [loaded |-> FALSE, balance |-> 0]]

\* ------------------------------------------------------------------- Init
InitContracts ==
    {[k \in ContractIds |->
        IF k = "k1"
        THEN [exists |-> TRUE, child_id |-> "c1", daily_reward |-> 2,
              start_date |-> 1, end_date |-> 2, active |-> TRUE]
        ELSE [exists |-> TRUE, child_id |-> c, daily_reward |-> 3,
              start_date |-> 1, end_date |-> 1, active |-> TRUE]]
     : c \in Children}

InitTasks ==
    << [parent_task_id |-> NoTask, due_date |-> 1, assigned_to |-> {"c1"},
        completed |-> FALSE, is_recurring |-> FALSE, weekdays |-> <<>>,
        end_date |-> NoDate] >>

InitOccurrences ==
    << [series_id |-> "s1", due_date |-> 1, completed |-> FALSE,
        cancelled |-> FALSE, assignees |-> {"c1"}] >>

InitSessions ==
    /\ pc = [r \in Runs |-> "idle"]
    /\ target_date = [r \in Runs |-> NoDate]
    /\ kind = [r \in Runs |-> "none"]
    /\ todo = [r \in Runs |-> {}]
    /\ cur = [r \in Runs |-> "null"]
    /\ loaded = [r \in Runs |-> <<>>]
    /\ sw = [r \in Runs |-> EmptySession]
    /\ dirtyW = [r \in Runs |-> {}]
    /\ newW = [r \in Runs |-> {}]
    /\ locks = [r \in Runs |-> {}]
    /\ ptx = [r \in Runs |-> <<>>]
    /\ pcred = [r \in Runs |-> {}]
    /\ rewards_processed = [r \in Runs |-> 0]
    /\ rewards_skipped = [r \in Runs |-> 0]
    /\ total_amount_credited = [r \in Runs |-> 0]
    /\ result = [r \in Runs |-> NoResult]
    /\ credits = [p \in ContractIds \X Days |-> 0]
    /\ overlap = {}
    /\ nruns = 0
    /\ rp = [r \in Runs |-> NoReprocess]

InitGenerators ==
    /\ gpc = [g \in Gens |-> "idle"]
    /\ gtoday = [g \in Gens |-> NoDate]
    /\ gtodo = [g \in Gens |-> {}]
    /\ gloaded = [g \in Gens |-> <<>>]
    /\ gcur = [g \in Gens |-> NoTask]
    /\ gj = [g \in Gens |-> 0]
    /\ gnew = [g \in Gens |-> <<>>]
    /\ total_instances_created = [g \in Gens |-> 0]
    /\ total_instances_skipped = [g \in Gens |-> 0]
    /\ lastGenDay = NoDate
    /\ gresult = [g \in Gens |-> "none"]
    /\ galone = [g \in Gens |-> TRUE]

NoSeries == [exists |-> FALSE, start_date |-> NoDate, until_date |-> NoDate,
             rrule |-> [byday |-> {}, until |-> NoDate], assignees |-> {}]

\* the series of the occurrence of InitOccurrences
InitSeries ==
    /\ series = [s \in SeriesIds |->
                   IF s = "s1"
                   THEN [exists |-> TRUE, start_date |-> 1, until_date |-> NoDate,
                         rrule |-> [byday |-> {6}, until |-> NoDate],
                         assignees |-> {"c1"}]
                   ELSE NoSeries]
    /\ created = {<<"s1", 1>>}
    /\ hpc = "idle"
    /\ hstatus = 0

InitConversions ==
    /\ conv = [v \in Convs |-> [pc |-> "idle", child_id |-> "null",
                                amount |-> 0, balance |-> 0]]
    /\ cleanup = [pc |-> "idle", result |-> "none"]
    /\ rrule_call = [weekdays |-> <<>>, end_date |-> NoDate,
                     rrule |-> [freq |-> "WEEKLY", byday |-> <<>>,
                                until |-> <<>>]]

InitWorkers ==
    /\ wpc = [w \in Workers |-> "down"]
    /\ scheduler_lock_file = [w \in Workers |-> FALSE]
    /\ flocked = {}
    /\ scheduler = [w \in Workers |-> "None"]

Init ==
    /\ today = 1
    /\ jobDue = FALSE
    /\ date_only_mapped \in BOOLEAN
    /\ contracts \in InitContracts
    /\ \E b \in BOOLEAN :
         tasks = [i \in DOMAIN InitTasks |-> [InitTasks[i] EXCEPT !.completed = b]]
    /\ occurrences = InitOccurrences
    /\ violations = {}
    /\ wallets = [c \in Children |-> [exists |-> FALSE, balance |-> 0]]
    /\ txs = <<>>
    /\ InitSessions
    /\ InitGenerators
    /\ InitWorkers
    /\ InitConversions
    /\ InitSeries

\* ----------------------------------------- process_daily_rewards_for_date
Quiet == (\A r \in Runs : pc[r] = "idle") /\ (\A g \in Gens : gpc[g] = "idle")

\* jobs.py 20-27: SELECT of the active contracts whose range contains D
ActiveContractsOn_AnyStatus(D) ==
    {k \in ContractIds : /\ contracts[k].exists
                         /\ contracts[k].start_date <= D
                         /\ contracts[k].end_date >= D}

ActiveContractsOn(D) ==
    {k \in ContractIds : /\ contracts[k].exists
                         /\ contracts[k].active = TRUE
                         /\ contracts[k].start_date <= D
                         /\ contracts[k].end_date >= D}

\* the tasks due on the target date or later
TasksDue_OnOrAfter(child_id, D) ==
    {i \in DOMAIN tasks : /\ child_id \in tasks[i].assigned_to
                          /\ tasks[i].due_date >= D}

\* jobs.py 51-57: SELECT Task JOIN task_assignments
TasksDue(child_id, D) ==
    {i \in DOMAIN tasks : /\ child_id \in tasks[i].assigned_to
                          /\ tasks[i].due_date = D}

\* jobs.py 59
IncompleteTasks_OfYesterday(child_id, D) ==
    {i \in DOMAIN tasks : /\ child_id \in tasks[i].assigned_to
                          /\ tasks[i].due_date = today - 1
                          /\ ~tasks[i].completed}

IncompleteTasks(child_id, D) ==
    {i \in TasksDue(child_id, D) : ~tasks[i].completed}

\* jobs.py 73-79: SELECT RuleViolation
ViolationsOn_Today(child_id, D) ==
    {v \in violations : v.child_id = child_id /\ v.date = today}

ViolationsOn(child_id, D) ==
    {v \in violations : v.child_id = child_id /\ v.date = D}

\* jobs.py 100-112: the reward rows of (child, contract) whose DateTime
\* column 'date' lies in [start_of_day, end_of_day) of the target date,
\* among the committed rows and the rows this session flushed
ExistingTransactions(r, child_id, contract_id, D) ==
    LET Match(t) == /\ t.child_id = child_id
                    /\ t.contract_id = contract_id
                    /\ t.date >= D
                    /\ t.date < D + 1
                    /\ t.reason = DailyRewardReason
    IN SelectSeq(txs \o ptx[r], Match)

HeldByOther(r, c) == \E r2 \in Runs \ {r} : c \in locks[r2]

\* a flush sends the UPDATE of every changed wallet; each needs its row
CanFlush(r) == \A c \in dirtyW[r] : ~HeldByOther(r, c)

\* the run returns or raises: the session is closed
EndRun(r, res, knd) ==
    /\ pc' = [pc EXCEPT ![r] = "idle"]
    /\ target_date' = [target_date EXCEPT ![r] = NoDate]
    /\ kind' = [kind EXCEPT ![r] = "none"]
    /\ todo' = [todo EXCEPT ![r] = {}]
    /\ cur' = [cur EXCEPT ![r] = "null"]
    /\ loaded' = [loaded EXCEPT ![r] = <<>>]
    /\ sw' = [sw EXCEPT ![r] = EmptySession]
    /\ dirtyW' = [dirtyW EXCEPT ![r] = {}]
    /\ newW' = [newW EXCEPT ![r] = {}]
    /\ locks' = [locks EXCEPT ![r] = {}]
    /\ ptx' = [ptx EXCEPT ![r] = <<>>]
    /\ pcred' = [pcred EXCEPT ![r] = {}]
    /\ rewards_processed' = [rewards_processed EXCEPT ![r] = 0]
    /\ rewards_skipped' = [rewards_skipped EXCEPT ![r] = 0]
    /\ total_amount_credited' = [total_amount_credited EXCEPT ![r] = 0]
    /\ result' = [result EXCEPT ![r] = res]
    /\ rp' = IF knd = "reprocess"
             THEN IF res.status = "ok"
                  THEN [rp EXCEPT ![r].cur = @ + 1,
                                  ![r].calls = Append(@, res.date),
                                  ![r].results = Append(@, res)]
                  ELSE [rp EXCEPT ![r].active = FALSE, ![r].status = "500",
                                  ![r].start = 0, ![r].calls = <<>>,
                                  ![r].results = <<>>]
             ELSE rp

\* jobs.py 10-41: open the session, select the contracts
BeginRun(r, D, knd) ==
    /\ pc[r] = "idle"
    /\ D \in Days => nruns < MaxRuns
    /\ nruns' = IF D \in Days THEN nruns + 1 ELSE nruns
    /\ overlap' = IF \E r2 \in Runs \ {r} : pc[r2] # "idle" /\ target_date[r2] = D
                  THEN overlap \cup {D} ELSE overlap
    /\ IF ActiveContractsOn(D) = {}
       THEN /\ EndRun(r, [status |-> "ok", date |-> D, rewards_processed |-> 0,
                          rewards_skipped |-> 0, total_amount_credited |-> 0], knd)
       ELSE /\ pc' = [pc EXCEPT ![r] = "loop"]
            /\ target_date' = [target_date EXCEPT ![r] = D]
            /\ kind' = [kind EXCEPT ![r] = knd]
            /\ todo' = [todo EXCEPT ![r] = ActiveContractsOn(D)]
            /\ loaded' = [loaded EXCEPT ![r] =
                             [k \in ActiveContractsOn(D) |-> contracts[k]]]
            /\ UNCHANGED <<cur, sw, dirtyW, newW, locks, ptx, pcred,
                           rewards_processed, rewards_skipped,
                           total_amount_credited, result, rp>>
    /\ UNCHANGED <<genVars, today, date_only_mapped, schedVars, seriesVars, convVars, dbVars, credits>>

\* jobs.py 170: the day that just ended
yesterday_SameDay == today

yesterday == today - 1

\* jobs.py 167-172 with main.py 157-164: the 00:00 cron job
process_daily_rewards(r) ==
    /\ ~rp[r].active
    /\ jobDue
    /\ jobDue' = FALSE
    /\ BeginRun(r, yesterday, "midnight")

\* jobs.py 43-87: one loop iteration up to the two eligibility checks
EvaluateContract(r) ==
    /\ pc[r] = "loop"
    /\ CanFlush(r)
    /\ \E k \in todo[r] :
         LET child_id == loaded[r][k].child_id
             D == target_date[r]
         IN /\ todo' = [todo EXCEPT ![r] = @ \ {k}]
            /\ locks' = [locks EXCEPT ![r] = @ \cup dirtyW[r]]
            /\ IF IncompleteTasks(child_id, D) # {}
               THEN /\ rewards_skipped' = [rewards_skipped EXCEPT ![r] = @ + 1]
                    /\ UNCHANGED <<pc, cur>>
               ELSE IF ViolationsOn(child_id, D) # {}
               THEN /\ rewards_skipped' = [rewards_skipped EXCEPT ![r] = @ + 1]
                    /\ UNCHANGED <<pc, cur>>
               ELSE /\ pc' = [pc EXCEPT ![r] = "wallet"]
                    /\ cur' = [cur EXCEPT ![r] = k]
                    /\ UNCHANGED rewards_skipped
    /\ UNCHANGED <<genVars, today, jobDue, date_only_mapped, schedVars, seriesVars, convVars, dbVars, target_date, kind,
                   loaded, sw, dirtyW, newW, ptx, pcred, rewards_processed,
                   total_amount_credited, histVars, rp>>

\* jobs.py 92-93: session.get(Wallet, child_id)
GetWallet(r) ==
    /\ pc[r] = "wallet"
    /\ LET child_id == loaded[r][cur[r]].child_id
       IN IF sw[r][child_id].loaded
          THEN /\ pc' = [pc EXCEPT ![r] = "credit"]
               /\ UNCHANGED sw
          ELSE IF wallets[child_id].exists
          THEN /\ pc' = [pc EXCEPT ![r] = "credit"]
               /\ sw' = [sw EXCEPT ![r][child_id] =
                            [loaded |-> TRUE, balance |-> wallets[child_id].balance]]
          ELSE /\ pc' = [pc EXCEPT ![r] = "mkwallet"]
               /\ UNCHANGED sw
    /\ UNCHANGED <<genVars, today, jobDue, date_only_mapped, schedVars, seriesVars, convVars, dbVars, target_date, kind,
                   todo, cur, loaded, dirtyW, newW, locks, ptx, pcred,
                   rewards_processed, rewards_skipped, total_amount_credited,
                   histVars, rp>>

\* jobs.py 94-97: Wallet(child_id, balance=0.0); add; flush
CreateWallet(r) ==
    /\ pc[r] = "mkwallet"
    /\ CanFlush(r)
    /\ LET child_id == loaded[r][cur[r]].child_id
       IN /\ ~wallets[child_id].exists
          /\ \A r2 \in Runs \ {r} : child_id \notin newW[r2]
          /\ sw' = [sw EXCEPT ![r][child_id] = [loaded |-> TRUE, balance |-> 0]]
          /\ newW' = [newW EXCEPT ![r] = @ \cup {child_id}]
          /\ locks' = [locks EXCEPT ![r] = @ \cup dirtyW[r] \cup {child_id}]
    /\ pc' = [pc EXCEPT ![r] = "credit"]
    /\ UNCHANGED <<genVars, today, jobDue, date_only_mapped, schedVars, seriesVars, convVars, dbVars, target_date, kind,
                   todo, cur, loaded, dirtyW, ptx, pcred, rewards_processed,
                   rewards_skipped, total_amount_credited, histVars, rp>>

\* jobs.py 126-132: the row the constructor builds; 'date' is not passed,
\* so the column default datetime.utcnow fills it (wallet.py 20)
NewRewardTransaction(child_id, contract_id, daily_reward, D) ==
    [child_id |-> child_id, amount |-> daily_reward,
     reason |-> DailyRewardReason, contract_id |-> contract_id,
     date |-> today, target |-> D]

\* jobs.py 122-124: wallet.balance += daily_reward on the session's
\* Wallet object
NewBalance_FromCommitted(r, child_id, daily_reward) ==
    wallets[child_id].balance + daily_reward

NewBalance(r, child_id, daily_reward) ==
    sw[r][child_id].balance + daily_reward

\* jobs.py 99-144: duplicate check, balance increment, transaction
CreditContract(r) ==
    /\ pc[r] = "credit"
    /\ CanFlush(r)
    /\ LET k == cur[r]
           child_id == loaded[r][k].child_id
           daily_reward == loaded[r][k].daily_reward
           D == target_date[r]
       IN /\ locks' = [locks EXCEPT ![r] = @ \cup dirtyW[r]]
          /\ IF ExistingTransactions(r, child_id, k, D) # <<>>
             THEN /\ rewards_skipped' = [rewards_skipped EXCEPT ![r] = @ + 1]
                  /\ UNCHANGED <<sw, dirtyW, ptx, pcred, rewards_processed,
                                 total_amount_credited>>
             ELSE /\ sw' = [sw EXCEPT ![r][child_id].balance =
                                 NewBalance(r, child_id, daily_reward)]
                  /\ dirtyW' = [dirtyW EXCEPT ![r] = @ \cup {child_id}]
                  /\ pcred' = [pcred EXCEPT ![r] = @ \cup {k}]
                  /\ IF date_only_mapped
                     THEN /\ ptx' = [ptx EXCEPT ![r] = Append(@,
                                NewRewardTransaction(child_id, k, daily_reward, D))]
                          /\ rewards_processed' =
                                [rewards_processed EXCEPT ![r] = @ + 1]
                          /\ total_amount_credited' =
                                [total_amount_credited EXCEPT ![r] = @ + daily_reward]
                          /\ UNCHANGED rewards_skipped
                     ELSE \* TypeError, caught at line 140
                          /\ rewards_skipped' = [rewards_skipped EXCEPT ![r] = @ + 1]
                          /\ UNCHANGED <<ptx, rewards_processed,
                                         total_amount_credited>>
    /\ pc' = [pc EXCEPT ![r] = "loop"]
    /\ cur' = [cur EXCEPT ![r] = "null"]
    /\ UNCHANGED <<genVars, today, jobDue, date_only_mapped, schedVars, seriesVars, convVars, dbVars, target_date, kind,
                   todo, loaded, newW, histVars, rp>>

\* jobs.py 146-160: commit and return the summary
CommitRun(r) ==
    /\ pc[r] = "loop"
    /\ todo[r] = {}
    /\ CanFlush(r)
    /\ wallets' = [c \in Children |->
                     IF c \in dirtyW[r] \cup newW[r]
                     THEN [exists |-> TRUE, balance |-> sw[r][c].balance]
                     ELSE wallets[c]]
    /\ txs' = txs \o ptx[r]
    /\ credits' = [p \in ContractIds \X Days |->
                     IF p[1] \in pcred[r] /\ p[2] = target_date[r]
                     THEN credits[p] + 1 ELSE credits[p]]
    /\ EndRun(r, [status |-> "ok", date |-> target_date[r],
                  rewards_processed |-> rewards_processed[r],
                  rewards_skipped |-> rewards_skipped[r],
                  total_amount_credited |-> total_amount_credited[r]], kind[r])
    /\ UNCHANGED <<genVars, today, jobDue, date_only_mapped, schedVars, seriesVars, convVars, contracts, tasks,
                   occurrences, violations, overlap, nruns>>

\* wallets.py 111-153: validation and start of the reprocess loop
InvalidRange_NoFutureCheck(start_date, end_date) ==
    \/ start_date > end_date
    \/ end_date - start_date > MaxSpan

\* wallets.py 121-141: the three validations of the request
InvalidRange(start_date, end_date) ==
    \/ start_date > end_date
    \/ end_date - start_date > MaxSpan
    \/ start_date > today \/ end_date > today

reprocess_rewards(r, start_date, end_date) ==
    /\ pc[r] = "idle"
    /\ ~rp[r].active
    /\ nruns < MaxRuns
    /\ IF InvalidRange(start_date, end_date)
       THEN rp' = [rp EXCEPT ![r] = [NoReprocess EXCEPT !.status = "400"]]
       ELSE rp' = [rp EXCEPT ![r] = [active |-> TRUE, cur |-> start_date,
                                     end |-> end_date, status |-> "running",
                                     start |-> start_date, calls |-> <<>>,
                                     results |-> <<>>,
                                     summary |-> NoReprocess.summary]]
    /\ UNCHANGED <<genVars, today, jobDue, date_only_mapped, schedVars, seriesVars, convVars, dbVars, sessVars, histVars>>

\* wallets.py 149-153: one iteration of the loop
ReprocessDate(r) ==
    /\ rp[r].active
    /\ rp[r].cur <= rp[r].end
    /\ BeginRun(r, rp[r].cur, "reprocess")
    /\ UNCHANGED jobDue

\* wallets.py 155-172: the loop is over, the summary is returned
ReprocessReturn(r) ==
    /\ pc[r] = "idle"
    /\ rp[r].active
    /\ rp[r].cur > rp[r].end
    /\ rp' = [rp EXCEPT ![r] = [NoReprocess EXCEPT
                                   !.status = "200",
                                   !.summary = Summary(rp[r].results)]]
    /\ UNCHANGED <<genVars, today, jobDue, date_only_mapped, schedVars, seriesVars, convVars, dbVars, sessVars, histVars>>

\* ------------------------------------------ create_recurring_task_instances
\* date.weekday(): Monday is 0 and Sunday is 6; day 1 of the model is a
\* Saturday, so that a week boundary lies inside the modelled days
Weekday(d) == (d + 4) % 7

\* scheduler.py 44
StartOfNextWeek(d) == d + (7 - Weekday(d))

\* scheduler.py 54
TaskDate(d, weekday) == StartOfNextWeek(d) + (weekday - 1)

\* scheduler.py 57-62: the rows the SELECT of the session sees, the committed
\* ones and the ones the session has flushed itself
ExistingInstances_TodayOnly(g, task_id, task_date) ==
    LET M(t) == t.parent_task_id = task_id /\ t.due_date = gtoday[g]
    IN  SelectSeq(tasks \o gnew[g], M)

ExistingInstances(g, task_id, task_date) ==
    LET M(t) == t.parent_task_id = task_id /\ t.due_date = task_date
    IN  SelectSeq(tasks \o gnew[g], M)

\* scheduler.py 66-82
NewInstance(task, task_id, task_date) ==
    [parent_task_id |-> task_id, due_date |-> task_date,
     assigned_to |-> task.assigned_to, completed |-> FALSE,
     is_recurring |-> FALSE, weekdays |-> <<>>, end_date |-> NoDate]

EndGenerator(g) ==
    /\ gpc' = [gpc EXCEPT ![g] = "idle"]
    /\ gtoday' = [gtoday EXCEPT ![g] = NoDate]
    /\ gtodo' = [gtodo EXCEPT ![g] = {}]
    /\ gloaded' = [gloaded EXCEPT ![g] = <<>>]
    /\ gcur' = [gcur EXCEPT ![g] = NoTask]
    /\ gj' = [gj EXCEPT ![g] = 0]
    /\ gnew' = [gnew EXCEPT ![g] = <<>>]
    /\ total_instances_created' = [total_instances_created EXCEPT ![g] = 0]
    /\ total_instances_skipped' = [total_instances_skipped EXCEPT ![g] = 0]

\* scheduler.py 16-32: today is read, the recurring tasks are selected; with
\* none of them the function returns
create_recurring_task_instances(g) ==
    /\ gpc[g] = "idle"
    /\ LET recurring_tasks == {i \in DOMAIN tasks : tasks[i].is_recurring}
       IN  IF recurring_tasks = {}
           THEN /\ lastGenDay' = today
                /\ gresult' = [gresult EXCEPT ![g] = "ok"]
                /\ UNCHANGED <<gpc, gtoday, gtodo, gloaded, gcur, gj, gnew,
                               total_instances_created, total_instances_skipped,
                               galone>>
           ELSE /\ gpc' = [gpc EXCEPT ![g] = "loop"]
                /\ gtoday' = [gtoday EXCEPT ![g] = today]
                /\ gtodo' = [gtodo EXCEPT ![g] = recurring_tasks]
                /\ gloaded' = [gloaded EXCEPT ![g] = tasks]
                /\ galone' = [h \in Gens |->
                                IF h = g THEN \A h2 \in Gens : gpc[h2] = "idle"
                                ELSE galone[h] /\ gpc[h] = "idle"]
                /\ UNCHANGED <<gcur, gj, gnew, total_instances_created,
                               total_instances_skipped, lastGenDay, gresult>>
    /\ UNCHANGED <<today, jobDue, date_only_mapped, schedVars, seriesVars, convVars, dbVars, sessVars, histVars,
                   rp>>

\* scheduler.py 36-41: the next recurring task; one without weekdays is left
NextRecurringTask(g) ==
    /\ gpc[g] = "loop"
    /\ gcur[g] = NoTask
    /\ \E i \in gtodo[g] :
         /\ gtodo' = [gtodo EXCEPT ![g] = @ \ {i}]
         /\ IF gloaded[g][i].weekdays = <<>>
            THEN UNCHANGED <<gcur, gj>>
            ELSE /\ gcur' = [gcur EXCEPT ![g] = i]
                 /\ gj' = [gj EXCEPT ![g] = 1]
    /\ UNCHANGED <<today, jobDue, date_only_mapped, schedVars, seriesVars, convVars, dbVars, sessVars, histVars,
                   rp, gpc, gtoday, gloaded, gnew, total_instances_created,
                   total_instances_skipped, lastGenDay, gresult, galone>>

\* scheduler.py 52-90: one weekday of the current task; scalar_one_or_none
\* takes at most one row
CheckInstance(g) ==
    /\ gpc[g] = "loop"
    /\ gcur[g] # NoTask
    /\ LET task == gloaded[g][gcur[g]]
           weekday == task.weekdays[gj[g]]
           task_date == TaskDate(gtoday[g], weekday)
           existing_instance == ExistingInstances(g, gcur[g], task_date)
       IN  /\ Len(existing_instance) <= 1
           /\ IF existing_instance = <<>>
              THEN /\ gnew' = [gnew EXCEPT ![g] =
                                 Append(@, NewInstance(task, gcur[g], task_date))]
                   /\ total_instances_created' =
                         [total_instances_created EXCEPT ![g] = @ + 1]
                   /\ UNCHANGED total_instances_skipped
              ELSE /\ total_instances_skipped' =
                         [total_instances_skipped EXCEPT ![g] = @ + 1]
                   /\ UNCHANGED <<gnew, total_instances_created>>
           /\ IF gj[g] < Len(task.weekdays)
              THEN /\ gj' = [gj EXCEPT ![g] = @ + 1]
                   /\ UNCHANGED gcur
              ELSE /\ gj' = [gj EXCEPT ![g] = 0]
                   /\ gcur' = [gcur EXCEPT ![g] = NoTask]
    /\ UNCHANGED <<today, jobDue, date_only_mapped, schedVars, seriesVars, convVars, dbVars, sessVars, histVars,
                   rp, gpc, gtoday, gtodo, gloaded, lastGenDay, gresult,
                   galone>>

\* scheduler.py 76-94: the rows db.add registered are inserted, nothing
\* else is written
TasksAfterCommit_Regenerate(g) ==
    LET Kept(t) == t.parent_task_id = NoTask
    IN  SelectSeq(tasks, Kept) \o gnew[g]

TasksAfterCommit(g) == tasks \o gnew[g]

\* scheduler.py 94-100
CommitGenerator(g) ==
    /\ gpc[g] = "loop"
    /\ gcur[g] = NoTask
    /\ gtodo[g] = {}
    /\ tasks' = TasksAfterCommit(g)
    /\ lastGenDay' = gtoday[g]
    /\ gresult' = [gresult EXCEPT ![g] = "ok"]
    /\ EndGenerator(g)
    /\ UNCHANGED galone
    /\ UNCHANGED <<today, jobDue, date_only_mapped, schedVars, seriesVars, convVars, contracts, occurrences,
                   violations, wallets, txs, sessVars, histVars, rp>>

\* scheduler.py 102-105: rollback, the exception leaves the function;
\* what the session flushed is lost
RollbackGenerator(g) ==
    /\ gresult' = [gresult EXCEPT ![g] = "error"]
    /\ EndGenerator(g)
    /\ UNCHANGED <<today, jobDue, date_only_mapped, schedVars, seriesVars, convVars, dbVars, sessVars, histVars,
                   rp, lastGenDay, galone>>

\* scheduler.py 62: scalar_one_or_none raises MultipleResultsFound when the
\* SELECT returns two instances of the task for the date
MultipleResultsFound(g) ==
    /\ gpc[g] = "loop"
    /\ gcur[g] # NoTask
    /\ LET task == gloaded[g][gcur[g]]
           task_date == TaskDate(gtoday[g], task.weekdays[gj[g]])
       IN  Len(ExistingInstances(g, gcur[g], task_date)) > 1
    /\ RollbackGenerator(g)

\* scheduler.py 22-94: a statement of the session fails (connection lost,
\* statement error) while the loop runs
GeneratorFault(g) ==
    /\ gpc[g] = "loop"
    /\ RollbackGenerator(g)

\* ------------------------------------------------------- overlapping runs
\* r waits for a row that r2 holds
Waits(r, r2) ==
    \/ /\ pc[r] \in {"loop", "credit", "mkwallet"}
       /\ dirtyW[r] \cap locks[r2] # {}
    \/ /\ pc[r] = "mkwallet"
       /\ loaded[r][cur[r]].child_id \in newW[r2]

\* jobs.py 97, 140-146, 162-165: the INSERT of the wallet meets the row
\* another session committed meanwhile; IntegrityError in flush leaves the
\* session's transaction rolled back, the next statement raises, the run
\* rolls back and re-raises
WalletInsertConflict(r) ==
    /\ pc[r] = "mkwallet"
    /\ wallets[loaded[r][cur[r]].child_id].exists
    /\ EndRun(r, [status |-> "error", date |-> target_date[r],
                  rewards_processed |-> 0, rewards_skipped |-> 0,
                  total_amount_credited |-> 0], kind[r])
    /\ UNCHANGED <<genVars, today, jobDue, date_only_mapped, schedVars, seriesVars, convVars, dbVars, credits, overlap, nruns>>

\* jobs.py 162-165: PostgreSQL aborts one session of a lock cycle; its
\* statement raises, the run rolls back and re-raises
DeadlockVictim(r) ==
    /\ \E r2 \in Runs \ {r} : Waits(r, r2) /\ Waits(r2, r)
    /\ EndRun(r, [status |-> "error", date |-> target_date[r],
                  rewards_processed |-> 0, rewards_skipped |-> 0,
                  total_amount_credited |-> 0], kind[r])
    /\ UNCHANGED <<genVars, today, jobDue, date_only_mapped, schedVars, seriesVars, convVars, dbVars, credits, overlap, nruns>>

\* jobs.py 51-57, 73-79, 162-165: the task query or the violation query of
\* a contract raises (they are outside the try of line 90); the run rolls
\* back and re-raises
QueryFault(r) ==
    /\ pc[r] = "loop"
    /\ todo[r] # {}
    /\ EndRun(r, [status |-> "error", date |-> target_date[r],
                  rewards_processed |-> 0, rewards_skipped |-> 0,
                  total_amount_credited |-> 0], kind[r])
    /\ UNCHANGED <<genVars, today, jobDue, date_only_mapped, schedVars, seriesVars, convVars, dbVars, credits, overlap, nruns>>

\* ------------------------------------------------- the scheduler's owner
\* main.py 85-91: flock(LOCK_EX | LOCK_NB) on the file of the temp
\* directory succeeds when no other open file description holds a lock
LockAvailable_PerProcessFile(w) == w \notin flocked

LockAvailable(w) == flocked = {}

\* gunicorn.conf.py 8-14: the master forks a worker, which imports the app
\* with scheduler = None and scheduler_lock_file = None (main.py 76-78)
WorkerStart(w) ==
    /\ wpc[w] = "down"
    /\ wpc' = [wpc EXCEPT ![w] = "startup"]
    /\ scheduler' = [scheduler EXCEPT ![w] = "None"]
    /\ scheduler_lock_file' = [scheduler_lock_file EXCEPT ![w] = FALSE]
    /\ UNCHANGED <<coreVars, seriesVars, convVars, flocked>>

\* main.py 120-132, 80-88: startup up to open(lock_path, 'w')
OpenLockFile(w) ==
    /\ wpc[w] = "startup"
    /\ scheduler_lock_file' = [scheduler_lock_file EXCEPT ![w] = TRUE]
    /\ wpc' = [wpc EXCEPT ![w] = "opened"]
    /\ UNCHANGED <<coreVars, seriesVars, convVars, flocked, scheduler>>

\* main.py 91-105: the non-blocking flock; on failure the file is closed
\* and acquire_scheduler_lock returns False
acquire_scheduler_lock(w) ==
    /\ wpc[w] = "opened"
    /\ IF LockAvailable(w)
       THEN /\ flocked' = flocked \cup {w}
            /\ wpc' = [wpc EXCEPT ![w] = "owner"]
            /\ UNCHANGED scheduler_lock_file
       ELSE /\ scheduler_lock_file' = [scheduler_lock_file EXCEPT ![w] = FALSE]
            /\ wpc' = [wpc EXCEPT ![w] = "serving"]
            /\ UNCHANGED flocked
    /\ UNCHANGED <<coreVars, seriesVars, convVars, scheduler>>

\* main.py 135-183: the worker that acquired the lock configures and
\* starts the scheduler
StartScheduler(w) ==
    /\ wpc[w] = "owner"
    /\ scheduler' = [scheduler EXCEPT ![w] = "running"]
    /\ wpc' = [wpc EXCEPT ![w] = "serving"]
    /\ UNCHANGED <<coreVars, seriesVars, convVars, scheduler_lock_file, flocked>>

\* main.py 188-206: shutdown stops the scheduler if there is a running one
shutdown(w) ==
    /\ wpc[w] = "serving"
    /\ scheduler' = [scheduler EXCEPT ![w] =
                       IF @ = "running" THEN "stopped" ELSE @]
    /\ wpc' = [wpc EXCEPT ![w] = "releasing"]
    /\ UNCHANGED <<coreVars, seriesVars, convVars, scheduler_lock_file, flocked>>

\* the lock file is forgotten without unlocking or closing it
release_scheduler_lock_KeepFlock(w) ==
    /\ wpc[w] = "releasing"
    /\ scheduler_lock_file' = [scheduler_lock_file EXCEPT ![w] = FALSE]
    /\ wpc' = [wpc EXCEPT ![w] = "down"]
    /\ UNCHANGED <<coreVars, seriesVars, convVars, flocked, scheduler>>

\* main.py 107-118, 209: the lock is released and the file closed, when
\* this worker has a lock file; the global scheduler keeps the scheduler
\* that was shut down; the process then exits
release_scheduler_lock(w) ==
    /\ wpc[w] = "releasing"
    /\ flocked' = IF scheduler_lock_file[w] THEN flocked \ {w} ELSE flocked
    /\ scheduler_lock_file' = [scheduler_lock_file EXCEPT ![w] = FALSE]
    /\ wpc' = [wpc EXCEPT ![w] = "down"]
    /\ UNCHANGED <<coreVars, seriesVars, convVars, scheduler>>

\* gunicorn.conf.py 12: a worker that the master kills (timeout) dies at
\* any step; the kernel closes its file, which drops its flock
WorkerKilled(w) ==
    /\ wpc[w] # "down"
    /\ flocked' = flocked \ {w}
    /\ scheduler_lock_file' = [scheduler_lock_file EXCEPT ![w] = FALSE]
    /\ scheduler' = [scheduler EXCEPT ![w] = "None"]
    /\ wpc' = [wpc EXCEPT ![w] = "down"]
    /\ UNCHANGED <<coreVars, seriesVars, convVars>>

\* ------------------------------------------------ series and occurrences
\* everything but the tables of series and occurrences, and the request
otherVars == <<today, jobDue, date_only_mapped, contracts, tasks, violations,
               wallets, txs, sessVars, histVars, rp, genVars, schedVars,
               convVars>>

\* ISO weekday of a day: 1 = Monday ... 7 = Sunday
IsoWeekday(d) == Weekday(d) + 1

\* task_series.py 23: weekday_map, indexed from 1 here
weekday_map == <<"MO", "TU", "WE", "TH", "FR", "SA", "SU">>

\* task_series.py 24: sorted(list(set(weekdays)))
RECURSIVE sorted(_)
sorted(S) ==
    IF S = {} THEN <<>>
    ELSE LET m == CHOOSE x \in S : \A y \in S : x <= y
         IN  <<m>> \o sorted(S \ {m})

\* the codes of the list as it comes, neither sorted nor made unique
byday_str_AsGiven(weekdays) ==
    [i \in DOMAIN weekdays |-> weekday_map[weekdays[i]]]

\* task_series.py 24: the codes that are joined by ","
byday_str(weekdays) ==
    LET days == sorted({weekdays[i] : i \in DOMAIN weekdays})
    IN  [i \in DOMAIN days |-> weekday_map[days[i]]]

\* task_series.py 20-33: a call of build_rrule on a list of weekday
\* numbers; the returned string is held as its parts, which ";" separates:
\* FREQ, BYDAY, and UNTIL when end_date is not None
build_rrule_call(weekdays, end_date) ==
    /\ rrule_call' =
          [weekdays |-> weekdays, end_date |-> end_date,
           rrule |-> [freq |-> "WEEKLY", byday |-> byday_str(weekdays),
                      until |-> IF end_date # NoDate THEN <<end_date>>
                                ELSE <<>>]]
    /\ UNCHANGED <<coreVars, schedVars, seriesVars, conv, cleanup>>

\* task_series.py 20-33: FREQ=WEEKLY;BYDAY=<sorted, unique weekdays>
\* [;UNTIL=<end_date>]
build_rrule(start_date, weekdays, end_date) ==
    [byday |-> weekdays, until |-> end_date]

\* the dates of a series' rule in [windowStart, windowEnd]: on a weekday
\* of the rule, from the start date on, up to the end date if there is one
expand(sr, windowStart, windowEnd) ==
    {d \in windowStart..windowEnd :
        /\ IsoWeekday(d) \in sr.rrule.byday
        /\ d >= sr.start_date
        /\ sr.until_date # NoDate => d <= sr.until_date
        /\ sr.rrule.until # NoDate => d <= sr.rrule.until}

\* the dates for which materialise_occurrences wants a row of series s:
\* none when the series ended before today, else the expansion of its
\* rule from max(today, start_date) to the horizon
WantedDates(s) ==
    IF ~series[s].exists \/ (series[s].until_date # NoDate /\ series[s].until_date < today)
    THEN {}
    ELSE LET effectiveStart == IF series[s].start_date > today
                               THEN series[s].start_date ELSE today
         IN  expand(series[s], effectiveStart, today + GEN_WINDOW)

\* insert-if-absent on (series_id, due_date)
MissingDates(s) ==
    {d \in WantedDates(s) :
        ~\E i \in DOMAIN occurrences :
            occurrences[i].series_id = s /\ occurrences[i].due_date = d}

RECURSIVE NewOccurrences(_, _)
NewOccurrences(s, dates) ==
    IF dates = {} THEN <<>>
    ELSE LET d == CHOOSE x \in dates : \A y \in dates : x <= y
         IN  << [series_id |-> s, due_date |-> d, completed |-> FALSE,
                 cancelled |-> FALSE, assignees |-> series[s].assignees] >>
             \o NewOccurrences(s, dates \ {d})

\* the rows materialise_occurrences inserts for the series of S
RECURSIVE Materialised(_)
Materialised(S) ==
    IF S = {} THEN <<>>
    ELSE LET s == CHOOSE x \in S : \A y \in S : x = "s1" \/ y # "s1"
         IN  NewOccurrences(s, MissingDates(s)) \o Materialised(S \ {s})

\* materialise_occurrences(db), for the series of S
materialise_occurrences(S) ==
    /\ occurrences' = occurrences \o Materialised(S)
    /\ created' = created \cup
                     UNION {{<<s, d>> : d \in MissingDates(s)} : s \in S}

\* task_series.py 98-100, 172-174: the call that follows the commit of
\* create_task_series and update_task_series
MaterialiseAfterCommit ==
    /\ hpc = "materialise"
    /\ materialise_occurrences(SeriesIds)
    /\ hpc' = "idle"
    /\ hstatus' = 200
    /\ UNCHANGED <<series, otherVars>>

\* task_series.py 186-189, 250-253: that call raises after the commit;
\* the series whose batch was persisted before keep their rows
MaterialiseFault ==
    /\ hpc = "materialise"
    /\ \E S \in SUBSET SeriesIds : materialise_occurrences(S)
    /\ hpc' = "idle"
    /\ hstatus' = 500
    /\ UNCHANGED <<series, otherVars>>

\* task_series.py 56-100: POST /tasks/series
create_task_series(s, startDate, endDate, weekdays, assignedTo) ==
    /\ Quiet /\ hpc = "idle"
    /\ ~series[s].exists
    /\ IF weekdays = {}
       THEN /\ hstatus' = 400
            /\ UNCHANGED <<series, hpc>>
       ELSE /\ series' = [series EXCEPT ![s] =
                            [exists |-> TRUE, start_date |-> startDate,
                             until_date |-> endDate,
                             rrule |-> build_rrule(startDate, weekdays, endDate),
                             assignees |-> assignedTo]]
            /\ hpc' = "materialise"
            /\ UNCHANGED hstatus
    /\ UNCHANGED <<occurrences, created, otherVars>>

\* task_series.py 161-167, 212-217: DELETE FROM task_occurrences WHERE
\* series_id = :series_id AND due_date >= :today
WithoutFuture_AfterToday(s) ==
    LET Kept(o) == ~(o.series_id = s /\ o.due_date > today)
    IN  SelectSeq(occurrences, Kept)

WithoutFuture(s) ==
    LET Kept(o) == ~(o.series_id = s /\ o.due_date >= today)
    IN  SelectSeq(occurrences, Kept)

\* task_series.py 121-141: a request that names startDate, weekdays or
\* endDate without a non-empty weekdays is rejected
MissingWeekdays_OnlyWhenNamed(startDate, endDate, weekdays) ==
    weekdays = {}

MissingWeekdays(startDate, endDate, weekdays) ==
    /\ startDate # Unset \/ weekdays # {Unset} \/ endDate # Unset
    /\ weekdays = {Unset} \/ weekdays = {}

\* task_series.py 102-189: PUT /tasks/series/{series_id}; Unset marks a
\* field the request does not carry, {Unset} for weekdays
update_task_series_KeepOccurrences(s, startDate, endDate, weekdays) ==
    /\ Quiet /\ hpc = "idle"
    /\ series[s].exists
    /\ IF MissingWeekdays(startDate, endDate, weekdays)
       THEN /\ hstatus' = 400
            /\ UNCHANGED <<series, occurrences, hpc>>
       ELSE /\ series' =
                 IF weekdays = {Unset}
                 THEN series
                 ELSE LET current_start_date ==
                              IF startDate = Unset THEN series[s].start_date
                              ELSE startDate
                          current_end_date ==
                              IF endDate = Unset THEN series[s].until_date
                              ELSE endDate
                      IN  [series EXCEPT
                             ![s].start_date = current_start_date,
                             ![s].until_date = current_end_date,
                             ![s].rrule = build_rrule(current_start_date,
                                                      weekdays, current_end_date)]
            /\ occurrences' = occurrences
            /\ hpc' = "materialise"
            /\ UNCHANGED hstatus
    /\ UNCHANGED <<created, otherVars>>

update_task_series(s, startDate, endDate, weekdays) ==
    /\ Quiet /\ hpc = "idle"
    /\ series[s].exists
    /\ IF MissingWeekdays(startDate, endDate, weekdays)
       THEN /\ hstatus' = 400
            /\ UNCHANGED <<series, occurrences, hpc>>
       ELSE /\ series' =
                 IF weekdays = {Unset}
                 THEN series
                 ELSE LET current_start_date ==
                              IF startDate = Unset THEN series[s].start_date
                              ELSE startDate
                          current_end_date ==
                              IF endDate = Unset THEN series[s].until_date
                              ELSE endDate
                      IN  [series EXCEPT
                             ![s].start_date = current_start_date,
                             ![s].until_date = current_end_date,
                             ![s].rrule = build_rrule(current_start_date,
                                                      weekdays, current_end_date)]
            /\ occurrences' = WithoutFuture(s)
            /\ hpc' = "materialise"
            /\ UNCHANGED hstatus
    /\ UNCHANGED <<created, otherVars>>

\* task_series.py 192-230: DELETE /tasks/series/{series_id}
delete_task_series_future(s) ==
    /\ Quiet /\ hpc = "idle"
    /\ series[s].exists
    /\ occurrences' = WithoutFuture(s)
    /\ series' = [series EXCEPT ![s].until_date = today - 1]
    /\ hstatus' = 204
    /\ UNCHANGED <<created, hpc, otherVars>>

\* tasks.py 109-120: GET /tasks materialises before it reads
get_tasks_and_occurrences ==
    /\ Quiet /\ hpc = "idle"
    /\ materialise_occurrences(SeriesIds)
    /\ UNCHANGED <<series, hpc, hstatus, otherVars>>

\* tasks.py 550-593: DELETE /tasks/occurrences/{occurrence_id}
delete_task_occurrence(i) ==
    /\ Quiet /\ hpc = "idle"
    /\ i \in DOMAIN occurrences
    /\ occurrences' = [j \in 1..(Len(occurrences) - 1) |->
                          IF j < i THEN occurrences[j] ELSE occurrences[j + 1]]
    /\ UNCHANGED <<series, created, hpc, hstatus, otherVars>>

\* tasks.py 352-425: PUT /tasks/occurrences/{occurrence_id}; has_completed
\* and has_cancelled tell which fields the request carries
update_task_occurrence(i, has_completed, completed, has_cancelled, cancelled) ==
    /\ Quiet /\ hpc = "idle"
    /\ i \in DOMAIN occurrences
    /\ LET o1 == IF has_completed
                 THEN [occurrences[i] EXCEPT
                         !.completed = completed,
                         !.cancelled = IF completed THEN FALSE ELSE @]
                 ELSE occurrences[i]
           o2 == IF has_cancelled
                 THEN [o1 EXCEPT
                         !.cancelled = cancelled,
                         !.completed = IF cancelled THEN FALSE ELSE @]
                 ELSE o1
       IN  occurrences' = [occurrences EXCEPT ![i] = o2]
    /\ hstatus' = IF has_completed \/ has_cancelled THEN 200 ELSE 404
    /\ UNCHANGED <<series, created, hpc, otherVars>>

\* the day changes; the cron trigger of 00:00 fires (main.py 157-164)
Tick ==
    /\ Quiet
    /\ today < MaxDay
    /\ today' = today + 1
    /\ jobDue' = TRUE
    /\ UNCHANGED <<genVars, date_only_mapped, schedVars, seriesVars, convVars, dbVars, sessVars, histVars, rp>>

\* tasks.py 271-342: PUT /tasks/{id} with 'completed'
update_task(i, completed) ==
    /\ Quiet
    /\ i \in DOMAIN tasks
    /\ tasks[i].parent_task_id = NoTask
    /\ ~tasks[i].is_recurring
    /\ tasks' = [tasks EXCEPT ![i].completed = completed]
    /\ UNCHANGED <<genVars, today, jobDue, date_only_mapped, schedVars, seriesVars, convVars, contracts, occurrences,
                   violations, wallets, txs, sessVars, histVars, rp>>

\* tasks.py 469-477: INSERT (series_id, due_date, completed = TRUE)
\* ON CONFLICT (series_id, due_date) DO UPDATE
\* SET completed = NOT completed
on_conflict_do_update_SetInserted(occ, series_id, due_date) ==
    IF \E j \in DOMAIN occ : occ[j].series_id = series_id /\ occ[j].due_date = due_date
    THEN [j \in DOMAIN occ |->
            IF occ[j].series_id = series_id /\ occ[j].due_date = due_date
            THEN [occ[j] EXCEPT !.completed = TRUE]
            ELSE occ[j]]
    ELSE Append(occ, [series_id |-> series_id, due_date |-> due_date,
                      completed |-> TRUE, cancelled |-> FALSE,
                      assignees |-> series[series_id].assignees])

on_conflict_do_update(occ, series_id, due_date) ==
    IF \E j \in DOMAIN occ : occ[j].series_id = series_id /\ occ[j].due_date = due_date
    THEN [j \in DOMAIN occ |->
            IF occ[j].series_id = series_id /\ occ[j].due_date = due_date
            THEN [occ[j] EXCEPT !.completed = ~@]
            ELSE occ[j]]
    ELSE Append(occ, [series_id |-> series_id, due_date |-> due_date,
                      completed |-> TRUE, cancelled |-> FALSE,
                      assignees |-> series[series_id].assignees])

\* tasks.py 427-512: the occurrence is read by id, then the statement runs
\* with its series_id and due_date
toggle_complete_occurrence(i) ==
    /\ Quiet
    /\ i \in DOMAIN occurrences
    /\ occurrences' = on_conflict_do_update(occurrences, occurrences[i].series_id,
                                            occurrences[i].due_date)
    /\ UNCHANGED <<genVars, today, jobDue, date_only_mapped, schedVars, seriesVars, convVars, contracts, tasks,
                   violations, wallets, txs, sessVars, histVars, rp>>

\* rule_violations.py 54-68
create_violation(child_id, d) ==
    /\ Quiet
    /\ Cardinality(violations) < MaxViolations
    /\ violations' = violations \cup {[child_id |-> child_id, date |-> d]}
    /\ UNCHANGED <<genVars, today, jobDue, date_only_mapped, schedVars, seriesVars, convVars, contracts, tasks,
                   occurrences, wallets, txs, sessVars, histVars, rp>>

\* contracts.py 171-191
deactivate_contract(k) ==
    /\ Quiet
    /\ contracts[k].exists
    /\ contracts' = [contracts EXCEPT ![k].active = FALSE]
    /\ UNCHANGED <<genVars, today, jobDue, date_only_mapped, schedVars, seriesVars, convVars, tasks, occurrences,
                   violations, wallets, txs, sessVars, histVars, rp>>

\* contracts.py 193-222
delete_contract_WithItsTransactions(k) ==
    /\ Quiet
    /\ contracts[k].exists
    /\ txs' = SelectSeq(txs, LAMBDA t : t.contract_id # k)
    /\ contracts' = [contracts EXCEPT ![k].exists = FALSE]
    /\ UNCHANGED <<genVars, today, jobDue, date_only_mapped, schedVars, seriesVars, convVars, tasks, occurrences,
                   violations, wallets, sessVars, histVars, rp>>

delete_contract(k) ==
    /\ Quiet
    /\ contracts[k].exists
    /\ txs' = [i \in DOMAIN txs |->
                 IF txs[i].contract_id = k
                 THEN [txs[i] EXCEPT !.contract_id = NoContract]
                 ELSE txs[i]]
    /\ contracts' = [contracts EXCEPT ![k].exists = FALSE]
    /\ UNCHANGED <<genVars, today, jobDue, date_only_mapped, schedVars, seriesVars, convVars, tasks, occurrences,
                   violations, wallets, sessVars, histVars, rp>>

\* wallets.py 75-109
convert_wallet_NoBalanceCheck(child_id, amount) ==
    /\ Quiet
    /\ IF ~wallets[child_id].exists
       THEN UNCHANGED <<wallets, txs>>                       \* 404
       ELSE IF amount <= 0
       THEN UNCHANGED <<wallets, txs>>                       \* 400
       ELSE /\ Len(SelectSeq(txs, LAMBDA t : t.reason = ConversionReason))
                 < MaxConversions
            /\ wallets' = [wallets EXCEPT ![child_id].balance = @ - amount]
            /\ txs' = Append(txs, [child_id |-> child_id, amount |-> -amount,
                                   reason |-> ConversionReason,
                                   contract_id |-> NoContract,
                                   date |-> today, target |-> NoDate])
    /\ UNCHANGED <<genVars, today, jobDue, date_only_mapped, schedVars, seriesVars, convVars, contracts, tasks,
                   occurrences, violations, sessVars, histVars, rp>>

convert_wallet(child_id, amount) ==
    /\ Quiet
    /\ IF ~wallets[child_id].exists
       THEN UNCHANGED <<wallets, txs>>                       \* 404
       ELSE IF amount <= 0 \/ amount > wallets[child_id].balance
       THEN UNCHANGED <<wallets, txs>>                       \* 400
       ELSE /\ Len(SelectSeq(txs, LAMBDA t : t.reason = ConversionReason))
                 < MaxConversions
            /\ wallets' = [wallets EXCEPT ![child_id].balance = @ - amount]
            /\ txs' = Append(txs, [child_id |-> child_id, amount |-> -amount,
                                   reason |-> ConversionReason,
                                   contract_id |-> NoContract,
                                   date |-> today, target |-> NoDate])
    /\ UNCHANGED <<genVars, today, jobDue, date_only_mapped, schedVars, seriesVars, convVars, contracts, tasks,
                   occurrences, violations, sessVars, histVars, rp>>

\* wallets.py 77-85: a convert_wallet request that overlaps other sessions:
\* db.get(Wallet, child_id) and the two checks, on the balance it loaded
ConvertRead(v, child_id, amount) ==
    /\ conv[v].pc = "idle"
    /\ IF ~wallets[child_id].exists
       THEN UNCHANGED conv                                   \* 404
       ELSE IF amount <= 0 \/ amount > wallets[child_id].balance
       THEN UNCHANGED conv                                   \* 400
       ELSE conv' = [conv EXCEPT ![v] =
                        [pc |-> "write", child_id |-> child_id, amount |-> amount,
                         balance |-> wallets[child_id].balance]]
    /\ UNCHANGED <<coreVars, schedVars, seriesVars, cleanup, rrule_call>>

\* wallets.py 87-98: wallet.balance -= amount on the loaded object,
\* db.add(tx), commit: UPDATE wallets SET balance = <the new value>, which
\* waits for the row lock of a run that flushed the same wallet
ConvertCommit(v) ==
    /\ conv[v].pc = "write"
    /\ \A r \in Runs : conv[v].child_id \notin locks[r]
    /\ wallets' = [wallets EXCEPT ![conv[v].child_id].balance =
                       conv[v].balance - conv[v].amount]
    /\ txs' = Append(txs, [child_id |-> conv[v].child_id, amount |-> -conv[v].amount,
                           reason |-> ConversionReason,
                           contract_id |-> NoContract,
                           date |-> today, target |-> NoDate])
    /\ conv' = [conv EXCEPT ![v].pc = "done"]
    /\ UNCHANGED <<genVars, today, jobDue, date_only_mapped, schedVars, seriesVars,
                   cleanup, rrule_call, contracts, tasks, occurrences, violations, sessVars, histVars, rp>>

\* ------------------------------------------------------ cleanup_duplicates
\* cleanup_duplicates.py 32, 60: GROUP BY / PARTITION BY child_id,
\* contract_id, date::date, reason; rows without contract share a group
SameGroup(a, b) ==
    /\ a.child_id = b.child_id
    /\ a.contract_id = b.contract_id
    /\ a.date = b.date
    /\ a.reason = b.reason

\* cleanup_duplicates.py 23-38: the groups of daily-reward rows with more
\* than one row, as the rows they hold
Duplicates(s) ==
    {i \in DOMAIN s :
        /\ s[i].reason = DailyRewardReason
        /\ \E j \in DOMAIN s \ {i} : SameGroup(s[j], s[i])}

\* every row of a group with duplicates is deleted
cleanup_query_WholeGroup(s) ==
    LET F[n \in 0..Len(s)] ==
          IF n = 0 THEN <<>>
          ELSE IF n \in Duplicates(s) THEN F[n - 1]
               ELSE Append(F[n - 1], s[n])
    IN  F[Len(s)]

\* cleanup_duplicates.py 53-68: DELETE the daily-reward rows with rn > 1,
\* rn being ROW_NUMBER() over the group, ORDER BY date ASC; the rows of a
\* group have the same day, and the earlier timestamp is the earlier
\* position of the sequence
cleanup_query(s) ==
    LET rn(i) == 1 + Cardinality({j \in 1..(i - 1) : SameGroup(s[j], s[i])})
        F[n \in 0..Len(s)] ==
          IF n = 0 THEN <<>>
          ELSE IF s[n].reason = DailyRewardReason /\ rn(n) > 1
               THEN F[n - 1]
               ELSE Append(F[n - 1], s[n])
    IN  F[Len(s)]

\* cleanup_duplicates.py 20-42: the script opens a session and looks for
\* duplicates; without any it returns True
CheckDuplicates ==
    /\ cleanup.pc = "idle"
    /\ cleanup' = IF Duplicates(txs) = {}
                  THEN [pc |-> "idle", result |-> "True"]
                  ELSE [pc |-> "delete", result |-> "none"]
    /\ UNCHANGED <<coreVars, schedVars, seriesVars, conv, rrule_call>>

\* cleanup_duplicates.py 52-78: the DELETE and the commit; no statement of
\* the script writes to wallets
DeleteDuplicates ==
    /\ cleanup.pc = "delete"
    /\ txs' = cleanup_query(txs)
    /\ cleanup' = [pc |-> "idle", result |-> "True"]
    /\ UNCHANGED <<genVars, today, jobDue, date_only_mapped, schedVars, seriesVars,
                   conv, rrule_call, contracts, tasks, occurrences, violations,
                   wallets, sessVars, histVars, rp>>

\* cleanup_duplicates.py 80-83: a statement raises, the session is rolled
\* back and the script returns False
CleanupFails ==
    /\ cleanup.pc = "delete"
    /\ cleanup' = [pc |-> "idle", result |-> "False"]
    /\ UNCHANGED <<coreVars, schedVars, seriesVars, conv, rrule_call>>

\* wallets.py 26-45: GET /wallets/{child_id} creates the missing wallet
get_wallet(child_id) ==
    /\ Quiet
    /\ wallets' = IF wallets[child_id].exists THEN wallets
                  ELSE [wallets EXCEPT ![child_id] =
                           [exists |-> TRUE, balance |-> 0]]
    /\ UNCHANGED <<genVars, today, jobDue, date_only_mapped, schedVars, seriesVars, convVars, contracts, tasks,
                   occurrences, violations, txs, sessVars, histVars, rp>>

\* ---------------------------------------------------------- specifications
RunStep(r) ==
    \/ process_daily_rewards(r)
    \/ \E s, e \in Days : reprocess_rewards(r, s, e)
    \/ ReprocessDate(r)
    \/ ReprocessReturn(r)
    \/ EvaluateContract(r)
    \/ GetWallet(r)
    \/ CreateWallet(r)
    \/ CreditContract(r)
    \/ CommitRun(r)

\* runs one after the other, the ledger operations between them
Next ==
    \/ \E r \in SeqRuns : RunStep(r)
    \/ Tick
    \/ \E k \in ContractIds : delete_contract(k)
    \/ \E c \in Children, a \in ConvertAmounts : convert_wallet(c, a)
    \/ \E c \in Children : get_wallet(c)

Spec == Init /\ [][Next]_vars

\* runs one after the other; violations are recorded and tasks completed
\* between them
NextElig ==
    \/ \E r \in SeqRuns : RunStep(r)
    \/ Tick
    \/ \E i \in DOMAIN tasks, b \in BOOLEAN : update_task(i, b)
    \/ \E c \in Children, d \in 1..2 : create_violation(c, d)

SpecElig == Init /\ [][NextElig]_vars

\* runs one after the other; tasks and occurrences are completed between
\* them
NextTasks ==
    \/ \E r \in SeqRuns : RunStep(r)
    \/ Tick
    \/ \E i \in DOMAIN tasks, b \in BOOLEAN : update_task(i, b)
    \/ \E i \in DOMAIN occurrences : toggle_complete_occurrence(i)

SpecTasks == Init /\ [][NextTasks]_vars

\* runs one after the other; contracts are deactivated between them
NextScope ==
    \/ \E r \in SeqRuns : RunStep(r)
    \/ Tick
    \/ \E k \in ContractIds : deactivate_contract(k)

SpecScope == Init /\ [][NextScope]_vars

\* two sessions of process_daily_rewards_for_date overlap: the cron job of
\* the day boundary and a reprocess request
InitConc ==
    /\ today \in 1..2
    /\ jobDue = (today = 2)
    /\ date_only_mapped \in BOOLEAN
    /\ contracts \in InitContracts
    /\ tasks = [i \in DOMAIN InitTasks |-> [InitTasks[i] EXCEPT !.completed = TRUE]]
    /\ occurrences = InitOccurrences
    /\ violations = {}
    /\ \E e \in BOOLEAN :
         wallets = [c \in Children |-> [exists |-> e, balance |-> 0]]
    /\ txs = <<>>
    /\ InitSessions
    /\ InitGenerators
    /\ InitWorkers
    /\ InitConversions
    /\ InitSeries

NextConc ==
    \/ \E r \in Runs : RunStep(r)
    \/ \E r \in Runs : WalletInsertConflict(r)
    \/ \E r \in Runs : DeadlockVictim(r)

SpecConc == InitConc /\ [][NextConc]_vars

\* runs one after the other; a query of a run may fail
NextFault ==
    \/ \E r \in SeqRuns : RunStep(r)
    \/ \E r \in SeqRuns : QueryFault(r)
    \/ Tick

SpecFault == Init /\ [][NextFault]_vars

\* the worker processes of one host start, shut down and are killed
NextWorkers ==
    \/ \E w \in Workers : WorkerStart(w)
    \/ \E w \in Workers : OpenLockFile(w)
    \/ \E w \in Workers : acquire_scheduler_lock(w)
    \/ \E w \in Workers : StartScheduler(w)
    \/ \E w \in Workers : shutdown(w)
    \/ \E w \in Workers : release_scheduler_lock(w)
    \/ \E w \in Workers : WorkerKilled(w)

SpecWorkers == Init /\ [][NextWorkers]_vars

\* the worker processes start and shut down in order; a startup or a
\* shutdown that began runs to its end
NextHandOver ==
    \/ \E w \in Workers : WorkerStart(w)
    \/ \E w \in Workers : OpenLockFile(w)
    \/ \E w \in Workers : acquire_scheduler_lock(w)
    \/ \E w \in Workers : StartScheduler(w)
    \/ \E w \in Workers : shutdown(w)
    \/ \E w \in Workers : release_scheduler_lock(w)

SpecHandOver ==
    /\ Init
    /\ [][NextHandOver]_vars
    /\ \A w \in Workers : /\ WF_vars(OpenLockFile(w))
                          /\ WF_vars(acquire_scheduler_lock(w))
                          /\ WF_vars(StartScheduler(w))
                          /\ WF_vars(release_scheduler_lock(w))

\* series are created, edited and ended, the task list is read, and
\* occurrences that are due are completed or removed, over several days
InitSer ==
    /\ today = 1
    /\ jobDue = FALSE
    /\ date_only_mapped = TRUE
    /\ contracts \in InitContracts
    /\ contracts["k2"].child_id = "c2"
    /\ tasks = InitTasks
    /\ occurrences = <<>>
    /\ violations = {}
    /\ wallets = [c \in Children |-> [exists |-> FALSE, balance |-> 0]]
    /\ txs = <<>>
    /\ InitSessions
    /\ InitGenerators
    /\ InitWorkers
    /\ InitConversions
    /\ series = [s \in SeriesIds |->
                   IF s = "s2"
                   THEN [exists |-> TRUE, start_date |-> 1, until_date |-> NoDate,
                         rrule |-> build_rrule(1, {6, 1}, NoDate),
                         assignees |-> {"c2"}]
                   ELSE NoSeries]
    /\ created = {}
    /\ hpc = "idle"
    /\ hstatus = 0

EditedSeries == {"s1"}
StartDates == {1, 3}
EndDates == {NoDate, 2}
WeekdaySets == {{}, {1}, {6, 7}}
DueFirstDay == {i \in DOMAIN occurrences : occurrences[i].due_date = 1}

NextSeries ==
    \/ \E s \in EditedSeries, sd \in StartDates, ed \in EndDates, w \in WeekdaySets :
          create_task_series(s, sd, ed, w, {"c1"})
    \/ \E s \in EditedSeries, sd \in StartDates \cup {Unset},
          ed \in EndDates \cup {Unset}, w \in WeekdaySets \cup {{Unset}} :
          update_task_series(s, sd, ed, w)
    \/ \E s \in EditedSeries : delete_task_series_future(s)
    \/ MaterialiseAfterCommit
    \/ MaterialiseFault
    \/ get_tasks_and_occurrences
    \/ \E i \in DueFirstDay : toggle_complete_occurrence(i)
    \/ Tick

SpecSeries == InitSer /\ [][NextSeries]_vars

\* a series is created, its occurrences are removed one by one and the
\* task list is read
DueSoon == {i \in DOMAIN occurrences : occurrences[i].due_date <= MaxDay}

NextRemove ==
    \/ \E s \in EditedSeries, sd \in StartDates, ed \in EndDates, w \in WeekdaySets :
          create_task_series(s, sd, ed, w, {"c1"})
    \/ MaterialiseAfterCommit
    \/ MaterialiseFault
    \/ get_tasks_and_occurrences
    \/ \E i \in DueSoon : delete_task_occurrence(i)
    \/ Tick

SpecRemove == InitSer /\ [][NextRemove]_vars

\* an occurrence that starts not completed and not cancelled is updated
\* and toggled, day after day
NextOcc ==
    \/ \E i \in DOMAIN occurrences, has_completed \in BOOLEAN, completed \in BOOLEAN,
          has_cancelled \in BOOLEAN, cancelled \in BOOLEAN :
          update_task_occurrence(i, has_completed, completed, has_cancelled, cancelled)
    \/ \E i \in DOMAIN occurrences : toggle_complete_occurrence(i)
    \/ Tick

SpecOcc == Init /\ [][NextOcc]_vars

\* the task list is read, which materialises the occurrences of the
\* series, and occurrences are toggled, day after day
NextToggle ==
    \/ \E i \in DOMAIN occurrences : toggle_complete_occurrence(i)
    \/ get_tasks_and_occurrences
    \/ Tick

SpecToggle == Init /\ [][NextToggle]_vars

\* reprocess requests alone, long after the contracts ended, so that a
\* range of MaxSpan days and more lies before today
InitReprocess ==
    /\ today = MaxDay + MaxSpan + 2
    /\ jobDue = FALSE
    /\ date_only_mapped \in BOOLEAN
    /\ contracts \in InitContracts
    /\ tasks = [i \in DOMAIN InitTasks |-> [InitTasks[i] EXCEPT !.completed = TRUE]]
    /\ occurrences = InitOccurrences
    /\ violations = {}
    /\ wallets = [c \in Children |-> [exists |-> FALSE, balance |-> 0]]
    /\ txs = <<>>
    /\ InitSessions
    /\ InitGenerators
    /\ InitWorkers
    /\ InitConversions
    /\ InitSeries

RequestDates == {1, 2, today - MaxSpan - 1, today - MaxSpan, today, today + 1}

NextReprocess ==
    \E r \in SeqRuns :
        \/ \E s, e \in RequestDates : reprocess_rewards(r, s, e)
        \/ ReprocessDate(r)
        \/ ReprocessReturn(r)
        \/ EvaluateContract(r)
        \/ GetWallet(r)
        \/ CreateWallet(r)
        \/ CreditContract(r)
        \/ CommitRun(r)

SpecReprocess == InitReprocess /\ [][NextReprocess]_vars

\* the generator alone, on legacy recurring Task rows
WeekdayLists == {<<>>, <<1>>, <<7, 1>>, <<2, 2>>}

RecurringTask(weekdays, end_date) ==
    [parent_task_id |-> NoTask, due_date |-> 1, assigned_to |-> {"c1"},
     completed |-> FALSE, is_recurring |-> TRUE, weekdays |-> weekdays,
     end_date |-> end_date]

InitGen ==
    /\ today \in 1..MaxDay
    /\ jobDue = FALSE
    /\ date_only_mapped \in BOOLEAN
    /\ contracts \in InitContracts
    /\ tasks \in {<<>>} \cup {<<RecurringTask(w, NoDate)>> : w \in WeekdayLists}
                 \cup {<<RecurringTask(w, NoDate), RecurringTask(<<1>>, e)>> :
                         w \in WeekdayLists, e \in {NoDate, 2}}
    /\ occurrences = InitOccurrences
    /\ violations = {}
    /\ wallets = [c \in Children |-> [exists |-> FALSE, balance |-> 0]]
    /\ txs = <<>>
    /\ InitSessions
    /\ InitGenerators
    /\ InitWorkers
    /\ InitConversions
    /\ InitSeries

GenStep(g) ==
    \/ create_recurring_task_instances(g)
    \/ NextRecurringTask(g)
    \/ CheckInstance(g)
    \/ CommitGenerator(g)

NextGen ==
    \/ \E g \in SeqGens : GenStep(g)
    \/ Tick

SpecGen == InitGen /\ [][NextGen]_vars

\* two generator invocations that may overlap, each in its own session
NextGenConc ==
    \/ \E g \in Gens : GenStep(g)
    \/ \E g \in Gens : MultipleResultsFound(g)
    \/ Tick

SpecGenConc == InitGen /\ [][NextGenConc]_vars

\* one generator invocation after the other, statements may fail
NextGenFault ==
    \/ \E g \in SeqGens : GenStep(g)
    \/ \E g \in SeqGens : GeneratorFault(g)
    \/ Tick

SpecGenFault == InitGen /\ [][NextGenFault]_vars

\* the two 00:00 jobs, each iterating its contracts or recurring tasks in
\* any order
InitOrder ==
    /\ today = 1
    /\ jobDue = FALSE
    /\ date_only_mapped \in BOOLEAN
    /\ contracts \in InitContracts
    /\ tasks \in {<< [RecurringTask(w, NoDate) EXCEPT !.assigned_to = {"c2"}],
                      [RecurringTask(<<1>>, NoDate) EXCEPT !.assigned_to = {"c2"}] >> :
                      w \in WeekdayLists}
    /\ occurrences = InitOccurrences
    /\ violations = {}
    /\ wallets = [c \in Children |-> [exists |-> FALSE, balance |-> 0]]
    /\ txs = <<>>
    /\ InitSessions
    /\ InitGenerators
    /\ InitWorkers
    /\ InitConversions
    /\ InitSeries

NextOrder ==
    \/ \E r \in SeqRuns : process_daily_rewards(r)
    \/ \E r \in SeqRuns : EvaluateContract(r)
    \/ \E r \in SeqRuns : GetWallet(r)
    \/ \E r \in SeqRuns : CreateWallet(r)
    \/ \E r \in SeqRuns : CreditContract(r)
    \/ \E r \in SeqRuns : CommitRun(r)
    \/ \E g \in SeqGens : GenStep(g)
    \/ Tick

SpecOrder == InitOrder /\ [][NextOrder]_vars

\* the two 00:00 jobs of a tick, interleaved; the recurring tasks belong to
\* the child of contract k1
InitTick ==
    /\ today = 1
    /\ jobDue = FALSE
    /\ date_only_mapped \in BOOLEAN
    /\ contracts \in InitContracts
    /\ tasks \in {<< RecurringTask(w, NoDate), RecurringTask(<<1>>, NoDate) >> :
                      w \in WeekdayLists}
    /\ occurrences = InitOccurrences
    /\ violations = {}
    /\ wallets = [c \in Children |-> [exists |-> FALSE, balance |-> 0]]
    /\ txs = <<>>
    /\ InitSessions
    /\ InitGenerators
    /\ InitWorkers
    /\ InitConversions
    /\ InitSeries

SpecTick == InitTick /\ [][NextOrder]_vars

\* calls of build_rrule, one after the other, on lists of weekday numbers
\* in any order and with repetitions, with and without end date
NextRrule ==
    \E w \in UNION {[1..n -> 1..7] : n \in 0..2}
                \cup {<<7, 1, 7>>, <<3, 1, 2>>, <<5, 5, 5>>,
                      <<1, 2, 3, 4, 5, 6, 7>>, <<7, 6, 5, 4, 3, 2, 1>>,
                      <<4, 7, 4, 1, 7>>},
       e \in {NoDate, 1, MaxDay} : build_rrule_call(w, e)

SpecRrule == Init /\ [][NextRrule]_vars

\* the midnight job and conversion requests, one after the other
NextConv ==
    \/ \E r \in SeqRuns : process_daily_rewards(r)
    \/ \E r \in SeqRuns : EvaluateContract(r)
    \/ \E r \in SeqRuns : GetWallet(r)
    \/ \E r \in SeqRuns : CreateWallet(r)
    \/ \E r \in SeqRuns : CreditContract(r)
    \/ \E r \in SeqRuns : CommitRun(r)
    \/ Tick
    \/ \E c \in Children, a \in ConvertAmounts \cup {-1} : convert_wallet(c, a)
    \/ \E c \in Children : get_wallet(c)

SpecConv == Init /\ [][NextConv]_vars

\* the midnight job, conversions and contract deletions, one after the other
NextDelete ==
    \/ \E r \in SeqRuns : process_daily_rewards(r)
    \/ \E r \in SeqRuns : EvaluateContract(r)
    \/ \E r \in SeqRuns : GetWallet(r)
    \/ \E r \in SeqRuns : CreateWallet(r)
    \/ \E r \in SeqRuns : CreditContract(r)
    \/ \E r \in SeqRuns : CommitRun(r)
    \/ Tick
    \/ \E c \in Children, a \in ConvertAmounts : convert_wallet(c, a)
    \/ \E k \in ContractIds : delete_contract(k)

SpecDelete == Init /\ [][NextDelete]_vars

\* the midnight job and reprocess requests, one after the other; tasks are
\* completed between them
NextSummary ==
    \/ \E r \in SeqRuns : RunStep(r)
    \/ Tick
    \/ \E i \in DOMAIN tasks, b \in BOOLEAN : update_task(i, b)

SpecSummary == Init /\ [][NextSummary]_vars

\* the midnight job and reprocess requests, one after the other, with
\* deleted contracts and runs of the cleanup script
NextCleanup ==
    \/ \E r \in SeqRuns : RunStep(r)
    \/ Tick
    \/ \E k \in ContractIds : delete_contract(k)
    \/ CheckDuplicates
    \/ DeleteDuplicates
    \/ CleanupFails

SpecCleanup == Init /\ [][NextCleanup]_vars

\* the midnight job and two conversion requests that overlap it and each
\* other; the mapped class accepts date_only, so that every credit has its
\* transaction; each child holds 4 from a reward of day 0 whose contract
\* was deleted since
InitLost ==
    /\ today = 1
    /\ jobDue = FALSE
    /\ date_only_mapped = TRUE
    /\ contracts \in InitContracts
    /\ tasks = [i \in DOMAIN InitTasks |-> [InitTasks[i] EXCEPT !.completed = TRUE]]
    /\ occurrences = InitOccurrences
    /\ violations = {}
    /\ wallets = [c \in Children |-> [exists |-> TRUE, balance |-> 4]]
    /\ txs = << [child_id |-> "c1", amount |-> 4, reason |-> DailyRewardReason,
                 contract_id |-> NoContract, date |-> 0, target |-> 0],
                [child_id |-> "c2", amount |-> 4, reason |-> DailyRewardReason,
                 contract_id |-> NoContract, date |-> 0, target |-> 0] >>
    /\ InitSessions
    /\ InitGenerators
    /\ InitWorkers
    /\ InitConversions
    /\ InitSeries

NextLost ==
    \/ \E r \in SeqRuns : process_daily_rewards(r)
    \/ \E r \in SeqRuns : EvaluateContract(r)
    \/ \E r \in SeqRuns : GetWallet(r)
    \/ \E r \in SeqRuns : CreditContract(r)
    \/ \E r \in SeqRuns : CommitRun(r)
    \/ Tick
    \/ \E v \in Convs, c \in Children, a \in ConvertAmounts : ConvertRead(v, c, a)
    \/ \E v \in Convs : ConvertCommit(v)

SpecLost == InitLost /\ [][NextLost]_vars

\* ------------------------------------------------------------- properties
RECURSIVE SumOver(_, _)
SumOver(S, f) ==
    IF S = {} THEN 0
    ELSE LET x == CHOOSE y \in S : TRUE IN f[x] + SumOver(S \ {x}, f)

\* number of reward rows of (child of k, k) whose date column is day D
RewardRowsDated(k, D) ==
    Len(SelectSeq(txs, LAMBDA t : /\ t.reason = DailyRewardReason
                                  /\ t.child_id = contracts[k].child_id
                                  /\ t.contract_id = k
                                  /\ t.date = D))

\* number of reward rows written for k by runs whose target date was D
RewardRowsFor(s, k, D) ==
    Len(SelectSeq(s, LAMBDA t : /\ t.reason = DailyRewardReason
                                /\ t.contract_id = k
                                /\ t.target = D))

\* the rows a step appended to wallet_transactions
AddedTxs == SubSeq(txs', Len(txs) + 1, Len(txs'))

\* the step is the commit of run r (jobs.py 146)
CommitOf(r) == pc[r] = "loop" /\ todo[r] = {} /\ pc'[r] = "idle"

Final == Quiet /\ \A r \in Runs : ~rp[r].active

\* eligibility of child c for day D as the specification words it: every
\* task and every occurrence of c due on D is completed, no violation on D
Eligible(c, D) ==
    /\ \A i \in DOMAIN tasks :
          (c \in tasks[i].assigned_to /\ tasks[i].due_date = D)
              => tasks[i].completed
    /\ \A i \in DOMAIN occurrences :
          (/\ c \in occurrences[i].assignees
           /\ occurrences[i].due_date = D
           /\ ~occurrences[i].cancelled) => occurrences[i].completed
    /\ ~\E v \in violations : v.child_id = c /\ v.date = D

\* C1: for an eligible (child, contract, D), runs of
\* process_daily_rewards_for_date(D) made one after the other leave
\* exactly one reward transaction for (child, contract, D) and raise the
\* balance by the daily reward exactly once.
C1_SequentialExactlyOnce ==
    \A k \in ContractIds, D \in Days :
        (contracts[k].exists /\ Eligible(contracts[k].child_id, D)) =>
            /\ credits[<<k, D>>] <= 1
            /\ credits[<<k, D>>] = 1 => RewardRowsDated(k, D) = 1

\* C2: after overlapping runs for the same date D there is at most one
\* reward transaction per (child, contract, D) and the balance reflects
\* exactly one credit.
C2_ConcurrentExactlyOnce ==
    Final =>
      \A D \in overlap :
        /\ \A k \in ContractIds : RewardRowsFor(txs, k, D) <= 1
        /\ \A k \in ContractIds : credits[<<k, D>>] <= 1
        /\ (\A D2 \in Days \ {D} : \A k \in ContractIds : credits[<<k, D2>>] = 0)
              => \A c \in Children :
                    wallets[c].balance =
                        SumOver({k \in ContractIds : /\ contracts[k].child_id = c
                                                     /\ credits[<<k, D>>] >= 1},
                                [k \in ContractIds |-> contracts[k].daily_reward])

\* C3: for every child the wallet balance is the sum of the amounts of
\* the child's wallet transactions.
C3_LedgerInvariant ==
    \A c \in Children : wallets[c].balance = SumAmounts(TxOfChild(txs, c))

\* C4: every committed change of a wallet balance comes with the insert,
\* in the same commit, of transaction rows whose amounts add up to it.
C4_BalanceChangeHasTransaction ==
    [][\A c \in Children :
          wallets'[c].balance - wallets[c].balance
              = SumAmounts(TxOfChild(AddedTxs, c))]_vars

C6_ViolationBlocksReward ==
    [][\A r \in Runs, c \in Children :
          (/\ CommitOf(r)
           /\ \E v \in violations : v.child_id = c /\ v.date = target_date[r])
          => /\ wallets'[c] = wallets[c]
             /\ TxOfChild(txs', c) = TxOfChild(txs, c)
             /\ \A k \in ContractIds :
                   contracts[k].child_id = c =>
                      credits'[<<k, target_date[r]>>] = credits[<<k, target_date[r]>>]
      ]_vars

\* C6 witness: a run has iterated a contract whose child has a violation
\* on the target date and all of whose tasks due that day are completed,
\* and did not credit it
C6_Witness ==
    \E r \in Runs :
        /\ pc[r] = "loop"
        /\ \E k \in (DOMAIN loaded[r]) \ todo[r] :
              /\ \E v \in violations : /\ v.child_id = loaded[r][k].child_id
                                       /\ v.date = target_date[r]
              /\ \E i \in DOMAIN tasks : /\ loaded[r][k].child_id \in tasks[i].assigned_to
                                         /\ tasks[i].due_date = target_date[r]
              /\ \A i \in DOMAIN tasks :
                    (/\ loaded[r][k].child_id \in tasks[i].assigned_to
                     /\ tasks[i].due_date = target_date[r]) => tasks[i].completed
              /\ k \notin pcred[r]

\* C7: a run for date D credits no contract of a child who has an
\* incomplete task due on D, be it a one-off Task or a TaskOccurrence of
\* a series the child is assigned to.
C7_IncompleteTaskBlocksReward ==
    [][\A r \in Runs, c \in Children :
          (/\ CommitOf(r)
           /\ \/ \E i \in DOMAIN tasks : /\ c \in tasks[i].assigned_to
                                         /\ tasks[i].due_date = target_date[r]
                                         /\ ~tasks[i].completed
              \/ \E i \in DOMAIN occurrences :
                                         /\ c \in occurrences[i].assignees
                                         /\ occurrences[i].due_date = target_date[r]
                                         /\ ~occurrences[i].cancelled
                                         /\ ~occurrences[i].completed)
          => /\ wallets'[c] = wallets[c]
             /\ TxOfChild(txs', c) = TxOfChild(txs, c)
      ]_vars

\* C8: a run for D credits the daily reward (balance and transaction) to
\* every active contract in range whose child has no task and no occurrence
\* due on D and no violation on D and that was not credited for D before.
C8_VacuousEligibility ==
    [][\A r \in Runs, k \in ContractIds :
          (/\ CommitOf(r)
           /\ result'[r].status = "ok"
           /\ contracts[k].exists /\ contracts[k].active
           /\ contracts[k].start_date <= target_date[r]
           /\ target_date[r] <= contracts[k].end_date
           /\ ~\E i \in DOMAIN tasks : /\ contracts[k].child_id \in tasks[i].assigned_to
                                       /\ tasks[i].due_date = target_date[r]
           /\ ~\E i \in DOMAIN occurrences :
                                       /\ contracts[k].child_id \in occurrences[i].assignees
                                       /\ occurrences[i].due_date = target_date[r]
           /\ ~\E v \in violations : /\ v.child_id = contracts[k].child_id
                                     /\ v.date = target_date[r]
           /\ credits[<<k, target_date[r]>>] = 0
           /\ RewardRowsFor(txs, k, target_date[r]) = 0)
          => /\ credits'[<<k, target_date[r]>>] = 1
             /\ RewardRowsFor(txs', k, target_date[r]) = 1
      ]_vars

\* C9: a run for D credits no contract that is inactive (or deleted) when
\* D is processed or whose [start_date, end_date] does not contain D.
C9_ContractScope ==
    [][\A r \in Runs, k \in ContractIds :
          (/\ CommitOf(r)
           /\ ~(/\ contracts[k].exists /\ contracts[k].active
                /\ contracts[k].start_date <= target_date[r]
                /\ target_date[r] <= contracts[k].end_date))
          => /\ credits'[<<k, target_date[r]>>] = credits[<<k, target_date[r]>>]
             /\ RewardRowsFor(txs', k, target_date[r])
                   = RewardRowsFor(txs, k, target_date[r])
      ]_vars

\* C9 witness: k1 was credited for D = start_date and for D = end_date
\* while the deactivated k2 of the same child, in range on day 1, was not
C9_Witness ==
    /\ contracts["k2"].exists /\ ~contracts["k2"].active
    /\ contracts["k2"].child_id = contracts["k1"].child_id
    /\ credits[<<"k1", contracts["k1"].start_date>>] >= 1
    /\ credits[<<"k1", contracts["k1"].end_date>>] >= 1
    /\ credits[<<"k2", contracts["k2"].start_date>>] = 0


\* C10: idempotent materialization. A run of the generator that commits on
\* the day on which the previous run committed, the recurring tasks being
\* unchanged in between, creates zero instances and leaves the set of
\* (parent task, due date) instances as the first run left it.
InstanceKeys(s) ==
    {<<s[i].parent_task_id, s[i].due_date>> :
        i \in {j \in DOMAIN s : s[j].parent_task_id # NoTask}}

C10_IdempotentMaterialization ==
    [][\A g \in Gens :
          (/\ gpc[g] = "loop"
           /\ gpc'[g] = "idle"
           /\ lastGenDay = gtoday[g])
          => /\ total_instances_created[g] = 0
             /\ InstanceKeys(tasks') = InstanceKeys(tasks)
             /\ Len(tasks') = Len(tasks)]_vars

\* the second run of a day is about to commit after a first run that
\* created instances
C10_Witness ==
    \E g \in Gens :
        /\ gpc[g] = "loop"
        /\ gcur[g] = NoTask
        /\ gtodo[g] = {}
        /\ lastGenDay = gtoday[g]
        /\ InstanceKeys(tasks) # {}
        /\ total_instances_skipped[g] >= 2

\* C11: in every reachable state, overlapping generator runs included,
\* there is at most one generated instance per (parent task, due date).
C11_InstanceUniqueness ==
    \A i, j \in DOMAIN tasks :
        (/\ tasks[i].parent_task_id # NoTask
         /\ tasks[i].parent_task_id = tasks[j].parent_task_id
         /\ tasks[i].due_date = tasks[j].due_date) => i = j

\* C12: after a successful generator run on day 'today', every recurring
\* task has an instance on every day d of [today, today + 30] that is not
\* before its start, not after its end date, and whose ISO weekday is one
\* of its weekdays.
C12_MaterializationCompleteness ==
    [][\A g \in Gens :
          (gpc[g] = "loop" /\ gpc'[g] = "idle" /\ gresult'[g] = "ok") =>
             \A i \in DOMAIN tasks : \A d \in gtoday[g]..(gtoday[g] + 30) :
                (/\ tasks[i].is_recurring
                 /\ d >= tasks[i].due_date
                 /\ tasks[i].end_date = NoDate \/ d <= tasks[i].end_date
                 /\ \E n \in DOMAIN tasks[i].weekdays :
                       tasks[i].weekdays[n] = ((d + 4) % 7) + 1)
                => \E j \in DOMAIN tasks' : /\ tasks'[j].parent_task_id = i
                                             /\ tasks'[j].due_date = d
      ]_vars

\* C13: every instance a generator run on day 'today' creates is due on a
\* day d >= today, not before the start of its recurring task, not after
\* its end date when one is set, and the ISO weekday of d is one of the
\* weekdays of the task.
C13_MaterializationSoundness ==
    [][\A g \in Gens :
          (gpc[g] = "loop" /\ gpc'[g] = "idle") =>
             \A j \in (DOMAIN tasks') \ (DOMAIN tasks) :
                LET p == tasks[tasks'[j].parent_task_id]
                    d == tasks'[j].due_date
                IN  /\ d >= gtoday[g]
                    /\ d >= p.due_date
                    /\ p.end_date = NoDate \/ d <= p.end_date
                    /\ \E n \in DOMAIN p.weekdays :
                          p.weekdays[n] = ((d + 4) % 7) + 1
      ]_vars

\* C14: a generator step never deletes a row of the tasks table and never
\* changes a row that existed before it (due date, completed flag,
\* assignees included); it only appends rows.
C14_GeneratorOnlyAdds ==
    [][genVars' # genVars =>
          /\ Len(tasks') >= Len(tasks)
          /\ \A i \in DOMAIN tasks : tasks'[i] = tasks[i]]_vars

\* a run is about to commit new instances into a table that already holds
\* instances of an earlier run
C14_Witness ==
    \E g \in Gens :
        /\ gpc[g] = "loop"
        /\ gcur[g] = NoTask
        /\ gtodo[g] = {}
        /\ gnew[g] # <<>>
        /\ \E i \in DOMAIN tasks : tasks[i].parent_task_id # NoTask

C16_ReprocessIteration ==
    [][\A r \in Runs :
          (rp[r].active /\ rp'[r].status = "200") =>
             LET calls == rp[r].calls
             IN  /\ Len(calls) = rp[r].end - rp[r].start + 1
                 /\ \A i \in DOMAIN calls : /\ calls[i] = rp[r].start + i - 1
                                             /\ calls[i] <= today
                 /\ Len(calls) <= 30
      ]_vars

\* C17: when a run for D ends, by commit or by the failure of one
\* contract, every other contract whose credit step the run executed is
\* credited and committed.
C17_RewardFailureIsolation ==
    [][\A r \in Runs, k \in ContractIds :
          (pc[r] # "idle" /\ pc'[r] = "idle" /\ k \in pcred[r])
          => credits'[<<k, target_date[r]>>] = credits[<<k, target_date[r]>>] + 1
      ]_vars

\* C18: a run in which the credit step of a contract raised does not end
\* as a success whose counters put that contract with the skipped ones.
C18_CreditErrorSurfaced ==
    [][\A r \in Runs :
          (/\ CommitOf(r)
           /\ \E k \in pcred[r] :
                 \A i \in DOMAIN ptx[r] : ptx[r][i].contract_id # k)
          => ~(/\ result'[r].status = "ok"
               /\ result'[r].rewards_processed + result'[r].rewards_skipped
                     = Cardinality(DOMAIN loaded[r]))
      ]_vars

\* C19: when a generator run fails while it works on one recurring task,
\* the instances it created for the other recurring tasks are persisted.
C19_MaterializerFailureIsolation ==
    [][\A g \in Gens :
          (gpc[g] = "loop" /\ gpc'[g] = "idle" /\ gresult'[g] = "error"
           /\ gcur[g] # NoTask)
          => \A j \in DOMAIN gnew[g] :
               gnew[g][j].parent_task_id # gcur[g]
               => \E i \in DOMAIN tasks' : tasks'[i] = gnew[g][j]
      ]_vars

\* C20: a generator run during which no other generator run was in
\* flight, whatever earlier runs left, completes successfully.
C20_CatchUpAfterFailedTick ==
    [][\A g \in Gens :
          (gpc[g] = "loop" /\ gpc'[g] = "idle" /\ galone[g])
          => gresult'[g] = "ok"
      ]_vars

\* C21: the run the midnight job starts on day D has target date D - 1:
\* it selects the contracts whose range contains D - 1, and what it
\* credits at its commit is credited for D - 1, never for D, to children
\* whose tasks due on D - 1 are completed and who have no violation on
\* D - 1.
C21_MidnightProcessesYesterday ==
    [][\A r \in Runs :
          /\ (jobDue /\ ~jobDue' /\ pc[r] = "idle" /\ pc'[r] = "loop")
             => /\ target_date'[r] = today - 1
                /\ todo'[r] = {k \in ContractIds :
                                 /\ contracts[k].exists /\ contracts[k].active
                                 /\ contracts[k].start_date <= today - 1
                                 /\ today - 1 <= contracts[k].end_date}
          /\ (jobDue /\ ~jobDue' /\ pc[r] = "idle" /\ result'[r] # result[r])
             => result'[r].date = today - 1
          /\ (kind[r] = "midnight" /\ pc[r] # "idle" /\ pc'[r] = "idle")
             => \A k \in ContractIds, d \in Days :
                   credits'[<<k, d>>] # credits[<<k, d>>]
                   => /\ d = today - 1
                      /\ contracts[k].start_date <= d
                      /\ d <= contracts[k].end_date
                      /\ \A i \in DOMAIN tasks :
                            (/\ contracts[k].child_id \in tasks[i].assigned_to
                             /\ tasks[i].due_date = d) => tasks[i].completed
                      /\ ~\E v \in violations :
                            v.child_id = contracts[k].child_id /\ v.date = d
      ]_vars

\* C21 witness: on day 2 the midnight run has credited k1 for day 1 and
\* nothing for day 2, the child having a violation recorded on day 2
C21_Witness ==
    /\ today = 2
    /\ \E r \in Runs : result[r].status = "ok" /\ result[r].date = 1
    /\ ~jobDue /\ nruns = 1
    /\ credits[<<"k1", 1>>] = 1
    /\ credits[<<"k1", 2>>] = 0
    /\ \E v \in violations : v.child_id = "c1" /\ v.date = 2

\* C22: at most one worker at a time holds the scheduler lock, only a
\* worker that holds it has a running scheduler, and a worker whose
\* acquire_scheduler_lock failed has no scheduler.
C22_SingleSchedulerOwner ==
    /\ \A w1, w2 \in Workers :
          (/\ w1 \in flocked \/ scheduler[w1] = "running"
           /\ w2 \in flocked \/ scheduler[w2] = "running") => w1 = w2
    /\ \A w \in Workers : scheduler[w] = "running" => w \in flocked
    /\ \A w \in Workers :
          (wpc[w] \in {"serving", "releasing"} /\ ~scheduler_lock_file[w])
          => scheduler[w] = "None"

\* C22 witness: one worker owns the lock and runs the scheduler while the
\* two others completed startup without the lock and without a scheduler
C22_Witness ==
    \E w1, w2, w3 \in Workers :
        /\ w1 # w2 /\ w2 # w3 /\ w1 # w3
        /\ w1 \in flocked /\ scheduler[w1] = "running"
        /\ wpc[w2] = "serving" /\ ~scheduler_lock_file[w2]
        /\ wpc[w3] = "serving" /\ ~scheduler_lock_file[w3]

\* C23: every TaskSeries with a non-null until_date has
\* until_date >= start_date.
C23_SeriesDateInvariant ==
    \A s \in SeriesIds :
        (series[s].exists /\ series[s].until_date # NoDate)
        => series[s].until_date >= series[s].start_date

\* C24: the contracts a run for D credits are a function of the persisted
\* contracts, tasks, violations and transactions and of D: the active
\* contracts whose range contains D, whose child has no incomplete task
\* due on D and no violation on D, and for which no reward row dated D
\* exists. Neither the current day nor earlier runs enter.
C24_RerunnableEvaluation ==
    [][\A r \in Runs :
          (pc[r] = "loop" /\ todo[r] = {} /\ pc'[r] = "idle"
           /\ result'[r].status = "ok")
          => pcred[r] =
               {k \in ContractIds :
                  /\ contracts[k].exists /\ contracts[k].active
                  /\ contracts[k].start_date <= target_date[r]
                  /\ target_date[r] <= contracts[k].end_date
                  /\ \A i \in DOMAIN tasks :
                        (/\ contracts[k].child_id \in tasks[i].assigned_to
                         /\ tasks[i].due_date = target_date[r])
                        => tasks[i].completed
                  /\ ~\E v \in violations :
                        /\ v.child_id = contracts[k].child_id
                        /\ v.date = target_date[r]
                  /\ ~\E i \in DOMAIN txs :
                        /\ txs[i].child_id = contracts[k].child_id
                        /\ txs[i].contract_id = k
                        /\ txs[i].reason = DailyRewardReason
                        /\ txs[i].date = target_date[r]}
      ]_vars

\* C24 witness: on day 3, after an earlier run, a reprocess run for day 1
\* has decided to credit one contract and to skip another
C24_Witness ==
    /\ today = 3
    /\ nruns = 2
    /\ \E r \in Runs :
          /\ pc[r] = "loop" /\ todo[r] = {}
          /\ kind[r] = "reprocess" /\ target_date[r] = 1
          /\ pcred[r] # {}
          /\ pcred[r] # DOMAIN loaded[r]

C26_NeverRecreated ==
    [][\A s \in SeriesIds, d \in 1..(MaxDay + GEN_WINDOW) :
          <<s, d>> \in created
          => Cardinality({i \in DOMAIN occurrences' :
                            /\ occurrences'[i].series_id = s
                            /\ occurrences'[i].due_date = d})
             <= Cardinality({i \in DOMAIN occurrences :
                               /\ occurrences[i].series_id = s
                               /\ occurrences[i].due_date = d})
      ]_vars

\* C27: delete_task_series_future(s) on day today leaves no occurrence of
\* s due today or later, leaves every other occurrence as it was, and
\* sets until_date to today - 1; afterwards, as long as the series is
\* ended (until_date < today), no step adds an occurrence of s.
C27_SeriesDelete ==
    [][\A s \in SeriesIds :
          /\ delete_task_series_future(s)
             => LET Future(o) == o.series_id = s /\ o.due_date >= today
                    Other(o) == ~Future(o)
                IN  /\ SelectSeq(occurrences', Future) = <<>>
                    /\ SelectSeq(occurrences', Other) = SelectSeq(occurrences, Other)
                    /\ series'[s].until_date = today - 1
                    /\ hstatus' = 204
          /\ (/\ series[s].exists
              /\ series[s].until_date # NoDate
              /\ series[s].until_date < today
              /\ series'[s] = series[s])
             => LET Mine(o) == o.series_id = s
                IN  Len(SelectSeq(occurrences', Mine))
                       <= Len(SelectSeq(occurrences, Mine))
      ]_vars

\* C27 witness: s1 was ended on day 2, its occurrence of day 1 is kept and
\* none is due later; the occurrences of s2 were first materialised on
\* day 3, after that
C27_Witness ==
    /\ today = 3
    /\ series["s1"].exists
    /\ series["s1"].until_date = 1
    /\ series["s1"].rrule.until = NoDate
    /\ \E i \in DOMAIN occurrences :
          occurrences[i].series_id = "s1" /\ occurrences[i].due_date = 1
    /\ \A i \in DOMAIN occurrences :
          occurrences[i].series_id = "s1" => occurrences[i].due_date < 2
    /\ \E i \in DOMAIN occurrences :
          occurrences[i].series_id = "s2" /\ occurrences[i].due_date = 3
    /\ \A i \in DOMAIN occurrences :
          occurrences[i].series_id = "s2" => occurrences[i].due_date >= 3

\* requests of the universe of NextSeries that name startDate or endDate
\* and carry no weekdays
DatesWithoutWeekdays ==
    {q \in [startDate : StartDates \cup {Unset}, endDate : EndDates \cup {Unset},
            weekdays : {{Unset}}] :
        q.startDate # Unset \/ q.endDate # Unset}

\* requests of that universe that are not rejected
WithWeekdays ==
    [startDate : StartDates \cup {Unset}, endDate : EndDates \cup {Unset},
     weekdays : WeekdaySets \ {{}}]
    \cup {[startDate |-> Unset, endDate |-> Unset, weekdays |-> {Unset}]}

C29_SeriesUpdateRegeneration ==
    [][(\/ /\ hpc = "materialise" /\ hpc' = "idle" /\ hstatus' = 200
           /\ MaterialiseAfterCommit
        \/ /\ hpc = "idle" /\ hpc' = "idle" /\ series' = series
           /\ today' = today /\ hstatus' = hstatus
           /\ Len(occurrences') >= Len(occurrences)
           /\ \A i \in DOMAIN occurrences : occurrences'[i] = occurrences[i]
           /\ get_tasks_and_occurrences)
       => \A s \in SeriesIds :
            series[s].exists =>
              LET sr == series[s]
                  from == IF sr.start_date > today THEN sr.start_date ELSE today
                  ruleDates ==
                      IF sr.until_date # NoDate /\ sr.until_date < today THEN {}
                      ELSE {d \in from..(today + GEN_WINDOW) :
                               /\ ((d + 4) % 7) + 1 \in sr.rrule.byday
                               /\ sr.until_date # NoDate => d <= sr.until_date
                               /\ sr.rrule.until # NoDate => d <= sr.rrule.until}
                  rows(d) == {i \in DOMAIN occurrences' :
                                 /\ occurrences'[i].series_id = s
                                 /\ occurrences'[i].due_date = d}
              IN  /\ \A d \in ruleDates : Cardinality(rows(d)) = 1
                  /\ \A i \in DOMAIN occurrences' :
                        (occurrences'[i].series_id = s /\ occurrences'[i].due_date >= today)
                        => occurrences'[i].due_date \in ruleDates
      ]_vars

\* C29 witness: on day 2, after a re-materialisation of s1 failed and a
\* later one ran, s1 has its occurrence of day 1 from the rule it was
\* created with, the Monday occurrences of its new rule and no
\* occurrence on the coming Saturday
C29_Witness ==
    /\ today = 2
    /\ hstatus = 500 /\ hpc = "idle"
    /\ series["s1"].exists /\ series["s1"].rrule.byday = {1}
    /\ series["s1"].until_date = NoDate
    /\ \E i \in DOMAIN occurrences :
          occurrences[i].series_id = "s1" /\ occurrences[i].due_date = 1
    /\ \A d \in {3, 10, 17, 24, 31} :
          \E i \in DOMAIN occurrences :
             occurrences[i].series_id = "s1" /\ occurrences[i].due_date = d
    /\ ~\E i \in DOMAIN occurrences :
          occurrences[i].series_id = "s1" /\ occurrences[i].due_date = 8

\* C30: no occurrence is completed and cancelled at the same time, whatever
\* sequence of update_task_occurrence and toggle_complete_occurrence calls
\* it went through from not completed and not cancelled.
C30_NeverCompletedAndCancelled ==
    \A i \in DOMAIN occurrences :
        ~(occurrences[i].completed /\ occurrences[i].cancelled)

\* C31: a toggle of an existing occurrence flips its completed flag and
\* changes nothing else: no row is added, cancelled, due_date and
\* series_id of every row stay, no two rows share (series_id, due_date),
\* and a second toggle of the same occurrence gives back the table the
\* first one started from.
C31_ToggleInvolution ==
    [][\A i \in DOMAIN occurrences :
          toggle_complete_occurrence(i)
          => /\ Len(occurrences') = Len(occurrences)
             /\ occurrences'[i].completed = ~occurrences[i].completed
             /\ \A j \in DOMAIN occurrences :
                   /\ occurrences'[j].cancelled = occurrences[j].cancelled
                   /\ occurrences'[j].due_date = occurrences[j].due_date
                   /\ occurrences'[j].series_id = occurrences[j].series_id
                   /\ j # i => occurrences'[j] = occurrences[j]
             /\ \A j, k \in DOMAIN occurrences' :
                   (/\ occurrences'[j].series_id = occurrences'[k].series_id
                    /\ occurrences'[j].due_date = occurrences'[k].due_date) => j = k
             /\ on_conflict_do_update(occurrences', occurrences[i].series_id,
                                      occurrences[i].due_date) = occurrences
      ]_vars

\* C31 witness: among the materialised occurrences of s1, the one of
\* day 8 is completed and the one of day 1 is not, neither is cancelled
C31_Witness ==
    /\ Len(occurrences) = 5
    /\ \E i, j \in DOMAIN occurrences :
          /\ occurrences[i].series_id = "s1" /\ occurrences[i].due_date = 8
          /\ occurrences[i].completed /\ ~occurrences[i].cancelled
          /\ occurrences[j].series_id = "s1" /\ occurrences[j].due_date = 1
          /\ ~occurrences[j].completed /\ ~occurrences[j].cancelled

C33_NoLostWalletUpdate ==
    ((\A r \in Runs : pc[r] = "idle") /\ (\A v \in Convs : conv[v].pc # "write"))
    => \A c \in Children :
          /\ wallets[c].balance >= 0
          /\ wallets[c].balance =
                SumAmounts(SelectSeq(txs, LAMBDA t : t.child_id = c))

\* C34: delete_contract(k) keeps every wallet transaction with its amount,
\* child, date and reason, keeps every wallet balance, and changes only
\* the contract_id of the transactions of k, to null.
C34_DeletePreservesLedger ==
    [][\A k \in ContractIds :
          delete_contract(k)
          => /\ wallets' = wallets
             /\ Len(txs') = Len(txs)
             /\ \A i \in DOMAIN txs :
                   /\ txs'[i].amount = txs[i].amount
                   /\ txs'[i].child_id = txs[i].child_id
                   /\ txs'[i].date = txs[i].date
                   /\ txs'[i].reason = txs[i].reason
                   /\ txs'[i].contract_id =
                         IF txs[i].contract_id = k THEN "null" ELSE txs[i].contract_id
      ]_vars

\* C34 witness: k1 was deleted after its reward of 2 was credited to c1;
\* the transaction is there without contract, beside one of k2, and the
\* balance of c1 still holds it
C34_Witness ==
    /\ ~contracts["k1"].exists /\ contracts["k2"].exists
    /\ wallets["c1"].balance >= 2
    /\ \E i, j \in DOMAIN txs :
          /\ txs[i].child_id = "c1" /\ txs[i].amount = 2
          /\ txs[i].reason = "Recompense journaliere"
          /\ txs[i].contract_id = "null"
          /\ txs[j].contract_id = "k2"

\* C35: every completed run of process_daily_rewards_for_date(D) returns
\* rewards_processed + rewards_skipped = the number of active contracts
\* whose range contains D, rewards_processed = the number of daily-reward
\* transactions the run committed, total_amount_credited = the sum of their
\* amounts; each daily result joins the results of its reprocess request,
\* whose summary holds the sums of the daily results and, as days_processed,
\* the number of dates of the range
C35_RunAndSummaryCounters ==
    [][\A r \in SeqRuns :
          /\ ( /\ pc'[r] = "idle"
               /\ pc[r] = "loop" \/ nruns' # nruns \/ result'[r] # result[r]
               /\ result'[r].status = "ok" )
             => LET D == result'[r].date
                    added == SubSeq(txs', Len(txs) + 1, Len(txs'))
                IN  /\ result'[r].rewards_processed + result'[r].rewards_skipped
                          = Cardinality({k \in ContractIds :
                                            /\ contracts[k].exists
                                            /\ contracts[k].active
                                            /\ contracts[k].start_date <= D
                                            /\ contracts[k].end_date >= D})
                    /\ Len(txs') >= Len(txs)
                    /\ SubSeq(txs', 1, Len(txs)) = txs
                    /\ result'[r].rewards_processed = Len(added)
                    /\ \A i \in DOMAIN added :
                          added[i].reason = "Recompense journaliere"
                    /\ result'[r].total_amount_credited = SumAmounts(added)
                    /\ rp[r].active =>
                          rp'[r].results = Append(rp[r].results, result'[r])
          /\ (rp[r].active /\ rp'[r].status = "200")
             => LET res == rp[r].results
                    S == rp'[r].summary
                IN  /\ S.days_processed = rp[r].end - rp[r].start + 1
                    /\ S.days_processed = Len(res)
                    /\ S.total_rewards_processed =
                          SumField(res, "rewards_processed")
                    /\ S.total_rewards_skipped =
                          SumField(res, "rewards_skipped")
                    /\ S.total_amount_credited =
                          SumField(res, "total_amount_credited")
      ]_vars

\* C35 witness: a reprocess request over two days returned a summary with
\* one reward processed and one skipped
C35_Witness ==
    \E r \in SeqRuns :
       /\ rp[r].status = "200"
       /\ rp[r].summary.days_processed = 2
       /\ rp[r].summary.total_rewards_processed >= 1
       /\ rp[r].summary.total_rewards_skipped >= 1
       /\ rp[r].summary.total_amount_credited >= 2

C37_CleanupDuplicates ==
    [][LET Reward(s) == {i \in DOMAIN s : s[i].reason = "Recompense journaliere"}
           Same(a, b) == /\ a.child_id = b.child_id
                         /\ a.contract_id = b.contract_id
                         /\ a.date = b.date
           Other(t) == t.reason # "Recompense journaliere"
       IN  /\ (cleanup.pc = "delete" /\ cleanup'.pc = "idle"
               /\ cleanup'.result = "True")
              => /\ \A i \in Reward(txs) :
                       LET before == {j \in Reward(txs) : Same(txs[j], txs[i])}
                           after == {j \in Reward(txs') : Same(txs'[j], txs[i])}
                           first == CHOOSE j \in before :
                                       \A j2 \in before : j <= j2
                       IN  /\ Cardinality(after) = 1
                           /\ \A j \in after : txs'[j] = txs[first]
                 /\ \A j \in Reward(txs') :
                       \E i \in Reward(txs) : Same(txs[i], txs'[j])
                 /\ SelectSeq(txs', Other) = SelectSeq(txs, Other)
           /\ (cleanup.pc = "delete" /\ cleanup'.pc = "idle"
               /\ cleanup'.result = "False")
              => txs' = txs /\ wallets' = wallets
      ]_vars

\* C37 witness: a contract was credited twice for one day, the script
\* returned True, and a single daily-reward transaction of that contract
\* is left
C37_Witness ==
    /\ cleanup.pc = "idle" /\ cleanup.result = "True"
    /\ \E k \in ContractIds, d \in Days :
          /\ credits[<<k, d>>] >= 2
          /\ Cardinality({i \in DOMAIN txs :
                             /\ txs[i].reason = "Recompense journaliere"
                             /\ txs[i].contract_id = k}) = 1

\* C38: when cleanup_duplicates removes duplicates, every wallet whose
\* balance was the sum of its transactions before still has the sum of its
\* remaining transactions as balance
C38_CleanupKeepsLedger ==
    [][(cleanup.pc = "delete" /\ cleanup'.pc = "idle"
        /\ cleanup'.result = "True")
       => \A c \in Children :
             (/\ wallets[c].exists
              /\ wallets[c].balance =
                    SumAmounts(SelectSeq(txs, LAMBDA t : t.child_id = c)))
             => wallets'[c].balance =
                    SumAmounts(SelectSeq(txs', LAMBDA t : t.child_id = c))
      ]_vars

\* C39: what the midnight reward run for D = today - 1 commits is what it
\* commits on the tasks table without the rows due after D, the only rows
\* a generator run of the tick adds: each contract's task check gives the
\* result it gives on those rows, and the committed balances and
\* transactions follow from them; the generator adds only instances due
\* after today, changes no other table and no existing task, and creates
\* the instances its recurring tasks lack, with or without a reward run in
\* flight; no step of a reward run changes the tasks table
C39_JobsIndependent ==
    [][/\ \A r \in SeqRuns :
            LET D == target_date[r]
                Old == SelectSeq(tasks, LAMBDA t : t.due_date <= D)
                Clean(k) ==
                   /\ \A i \in DOMAIN Old :
                         (/\ contracts[k].child_id \in Old[i].assigned_to
                          /\ Old[i].due_date = D) => Old[i].completed
                   /\ ~\E v \in violations :
                         v.child_id = contracts[k].child_id /\ v.date = D
                Paid(k) ==
                   \E i \in DOMAIN txs :
                      /\ txs[i].child_id = contracts[k].child_id
                      /\ txs[i].contract_id = k
                      /\ txs[i].reason = "Recompense journaliere"
                      /\ txs[i].date = D
            IN  /\ (pc[r] = "loop" /\ todo'[r] # todo[r] /\ pc'[r] # "idle")
                   => \A k \in todo[r] \ todo'[r] :
                         IF Clean(k)
                         THEN pc'[r] = "wallet" /\ cur'[r] = k
                         ELSE /\ pc'[r] = "loop"
                              /\ rewards_skipped'[r] = rewards_skipped[r] + 1
                /\ (pc[r] = "loop" /\ todo[r] = {} /\ pc'[r] = "idle"
                    /\ result'[r].status = "ok" /\ kind[r] = "midnight")
                   => LET ToCredit ==
                             {k \in ContractIds :
                                /\ contracts[k].exists /\ contracts[k].active
                                /\ contracts[k].start_date <= D
                                /\ D <= contracts[k].end_date
                                /\ Clean(k) /\ ~Paid(k)}
                      IN  /\ D = today - 1
                          /\ pcred[r] = ToCredit
                          /\ \A c \in Children :
                                wallets'[c].balance = wallets[c].balance
                                   + SumAmounts([i \in 1..Len(ptx[r]) |->
                                        IF ptx[r][i].child_id = c
                                        THEN ptx[r][i]
                                        ELSE [amount |-> 0]])
                                   + (IF date_only_mapped THEN 0
                                      ELSE SumField([i \in 1..2 |->
                                             LET k == IF i = 1 THEN "k1" ELSE "k2"
                                             IN  [v |-> IF k \in ToCredit
                                                           /\ contracts[k].child_id = c
                                                        THEN contracts[k].daily_reward
                                                        ELSE 0]], "v"))
                          /\ txs' = txs \o ptx[r]
                          /\ {ptx[r][i].contract_id : i \in DOMAIN ptx[r]} =
                                (IF date_only_mapped THEN ToCredit ELSE {})
                /\ (pc'[r] # pc[r] \/ todo'[r] # todo[r])
                   => tasks' = tasks /\ occurrences' = occurrences
       /\ \A g \in SeqGens :
             /\ (gpc'[g] # gpc[g] \/ gtodo'[g] # gtodo[g] \/ gcur'[g] # gcur[g]
                 \/ tasks' # tasks)
                => /\ wallets' = wallets /\ txs' = txs
                   /\ contracts' = contracts /\ violations' = violations
                   /\ sessVars' = sessVars
                   /\ Len(tasks') >= Len(tasks)
                   /\ \A i \in DOMAIN tasks : tasks'[i] = tasks[i]
                   /\ \A i \in (Len(tasks) + 1)..Len(tasks') :
                         /\ tasks'[i].due_date > today
                         /\ tasks'[i].parent_task_id \in DOMAIN tasks
             /\ (gpc[g] = "loop" /\ gpc'[g] = "idle" /\ gresult'[g] = "ok")
                => Len(tasks') - Len(tasks) =
                      Cardinality(
                        {p \in (DOMAIN tasks) \X ((today + 1)..(today + 14)) :
                           /\ tasks[p[1]].is_recurring
                           /\ \E j \in DOMAIN tasks[p[1]].weekdays :
                                 today + (7 - ((today + 4) % 7))
                                    + tasks[p[1]].weekdays[j] - 1 = p[2]
                           /\ ~\E i \in DOMAIN tasks :
                                 /\ tasks[i].parent_task_id = p[1]
                                 /\ tasks[i].due_date = p[2]})
      ]_vars

\* C39 witness: the generator is in its loop, after the reward run of the
\* tick evaluated its contracts and credited one, and earlier instances of
\* that child's recurring task are in the table
C39_Witness ==
    \E r \in SeqRuns, g \in SeqGens :
       /\ gpc[g] = "loop"
       /\ pc[r] = "loop" /\ todo[r] = {} /\ kind[r] = "midnight"
       /\ pcred[r] # {}
       /\ \E k \in pcred[r], i \in DOMAIN tasks :
             /\ tasks[i].parent_task_id # NoTask
             /\ contracts[k].child_id \in tasks[i].assigned_to

\* C40: the rule build_rrule returns for a list of weekday numbers in 1..7
\* names each distinct weekday of the list exactly once, in Monday-to-Sunday
\* order, and no other day; it has an UNTIL part, holding the end date,
\* exactly when an end date is given; two calls with the same set of
\* weekdays and the same end date return the same rule
C40_BuildRrule ==
    [][(rrule_call' # rrule_call)
       => LET w == rrule_call'.weekdays
              out == rrule_call'.rrule
              codes == <<"MO", "TU", "WE", "TH", "FR", "SA", "SU">>
              Given(c) == {c[i] : i \in DOMAIN c}
              Pos(x) == CHOOSE d \in 1..7 : codes[d] = x
          IN  /\ \A d \in 1..7 :
                    Cardinality({i \in DOMAIN out.byday : out.byday[i] = codes[d]})
                       = IF d \in Given(w) THEN 1 ELSE 0
              /\ Len(out.byday) = Cardinality(Given(w))
              /\ \A i, j \in DOMAIN out.byday :
                    i < j => Pos(out.byday[i]) < Pos(out.byday[j])
              /\ (out.until # <<>>) <=> (rrule_call'.end_date # NoDate)
              /\ rrule_call'.end_date # NoDate
                    => out.until = <<rrule_call'.end_date>>
              /\ (/\ Given(rrule_call.weekdays) = Given(w)
                  /\ rrule_call.end_date = rrule_call'.end_date)
                 => out = rrule_call.rrule
      ]_vars

\* C40 witness: build_rrule was called with Sunday, Monday, Sunday and an
\* end date and returned BYDAY=MO,SU with an UNTIL part
C40_Witness ==
    /\ rrule_call.weekdays = <<7, 1, 7>>
    /\ rrule_call.end_date = 1
    /\ rrule_call.rrule.byday = <<"MO", "SU">>
    /\ rrule_call.rrule.until = <<1>>

====
